---------------------------- MODULE Spec2Model ----------------------------
(***************************************************************************)
(* Entity extraction and dominance ranking of src/advanced_ner_extractor.py *)
(* (AdvancedNERExtractor and extract_top_companies) as a state machine.     *)
(*                                                                          *)
(* A Python str is a sequence of one-character strings, so that lower(),    *)
(* split(), substring tests and count() are computed character by           *)
(* character as the interpreter computes them.                              *)
(*                                                                          *)
(* An involvement score is an IEEE-754 double.  Every double the scorer can *)
(* produce is k/20 plus a rounding error, and is held exactly as the record *)
(* [n |-> k, e |-> err] that stands for  (k * 2^54 + err) / 5  units of     *)
(* 2^-56 (see FAdd).  The dominance arithmetic of rank_by_dominance is      *)
(* computed on exact rationals over the nominal twentieths n; the rounding  *)
(* errors (< 2^-50) can change round(x, 2) only next to an exact tie        *)
(* x.xx5, and RoundHalfEven is exact there.                                 *)
(***************************************************************************)
EXTENDS Integers, Sequences, FiniteSets, TLC

(***************************************************************************)
(* Bounds of the model.                                                     *)
(***************************************************************************)
MaxArticles == 2

MaxTopN == 2

(***************************************************************************)
(* Characters and the str methods the source uses.                          *)
(***************************************************************************)
UpperChars ==
    <<"A","B","C","D","E","F","G","H","I","J","K","L","M",
      "N","O","P","Q","R","S","T","U","V","W","X","Y","Z">>

LowerChars ==
    <<"a","b","c","d","e","f","g","h","i","j","k","l","m",
      "n","o","p","q","r","s","t","u","v","w","x","y","z">>

DigitChars == {"0","1","2","3","4","5","6","7","8","9"}

\* c.isupper() of a one-character str
IsUpperChar(c) == \E i \in 1..26 : UpperChars[i] = c

IsLowerChar(c) == \E i \in 1..26 : LowerChars[i] = c

\* c.isspace(): the whitespace of the modelled headlines is the blank
IsSpace(c) == c = " "

LowerChar(c) ==
    IF IsUpperChar(c) THEN LowerChars[CHOOSE i \in 1..26 : UpperChars[i] = c] ELSE c

\* s.lower()
Lower(s) == [i \in 1..Len(s) |-> LowerChar(s[i])]

UpperChar(c) ==
    IF IsLowerChar(c) THEN UpperChars[CHOOSE i \in 1..26 : LowerChars[i] = c] ELSE c

\* s.upper()
Upper(s) == [i \in 1..Len(s) |-> UpperChar(s[i])]

\* s.isupper(): at least one cased character and no lowercase one
StrIsUpper(s) ==
    /\ \E i \in 1..Len(s) : IsUpperChar(s[i])
    /\ \A i \in 1..Len(s) : ~IsLowerChar(s[i])

\* s.strip()
Strip(s) ==
    LET nonblank == {i \in 1..Len(s) : ~IsSpace(s[i])}
    IN  IF nonblank = {} THEN <<>>
        ELSE SubSeq(s, CHOOSE i \in nonblank : \A j \in nonblank : i <= j,
                       CHOOSE i \in nonblank : \A j \in nonblank : i >= j)

RECURSIVE SplitOnBlank(_, _, _, _)
SplitOnBlank(s, i, cur, acc) ==
    IF i > Len(s) THEN Append(acc, cur)
    ELSE IF s[i] = " "
         THEN SplitOnBlank(s, i + 1, <<>>, Append(acc, cur))
         ELSE SplitOnBlank(s, i + 1, Append(cur, s[i]), acc)

\* s.split(' '): every blank separates, so two blanks in a row give an empty token
Split_KeepEmpty(s) == SplitOnBlank(s, 1, <<>>, <<>>)

RECURSIVE SplitFrom(_, _, _, _)
SplitFrom(s, i, cur, acc) ==
    IF i > Len(s) THEN (IF cur = <<>> THEN acc ELSE Append(acc, cur))
    ELSE IF IsSpace(s[i])
         THEN SplitFrom(s, i + 1, <<>>, IF cur = <<>> THEN acc ELSE Append(acc, cur))
         ELSE SplitFrom(s, i + 1, Append(cur, s[i]), acc)

\* s.split(): the maximal runs of non-blank characters, never an empty token
Split(s) == SplitFrom(s, 1, <<>>, <<>>)

RECURSIVE Join(_)
\* ' '.join(words)
Join(words) ==
    IF Len(words) = 0 THEN <<>>
    ELSE IF Len(words) = 1 THEN words[1]
    ELSE words[1] \o <<" ">> \o Join(Tail(words))

MatchAt(s, sub, i) == i + Len(sub) - 1 <= Len(s) /\ SubSeq(s, i, i + Len(sub) - 1) = sub

\* sub in s
Contains(s, sub) == \E i \in 1..(Len(s) + 1) : MatchAt(s, sub, i)

\* 1-based s.find(sub, from); 0 when there is none
Find(s, sub, from) ==
    LET hits == {i \in from..(Len(s) + 1) : MatchAt(s, sub, i)}
    IN  IF hits = {} THEN 0 ELSE CHOOSE i \in hits : \A j \in hits : i <= j

RECURSIVE CountFrom(_, _, _)
CountFrom(s, sub, from) ==
    LET i == Find(s, sub, from)
    IN  IF i = 0 THEN 0 ELSE 1 + CountFrom(s, sub, i + Len(sub))

\* s.count(sub): non-overlapping occurrences, len(s) + 1 for the empty sub
Count(s, sub) == IF sub = <<>> THEN Len(s) + 1 ELSE CountFrom(s, sub, 1)

RECURSIVE StrSplitFrom(_, _, _)
StrSplitFrom(s, sep, from) ==
    LET i == Find(s, sep, from)
    IN  IF i = 0 THEN << SubSeq(s, from, Len(s)) >>
        ELSE << SubSeq(s, from, i - 1) >> \o StrSplitFrom(s, sep, i + Len(sep))

\* s.split(sep) for a non-empty sep; Python's part [k] is part k + 1 here
StrSplit(s, sep) == StrSplitFrom(s, sep, 1)

\* x in list
InList(list, x) == \E i \in 1..Len(list) : list[i] = x

\* list.index(x), zero-based, for an x the list holds
Index(list, x) == (CHOOSE i \in 1..Len(list) : list[i] = x /\ \A j \in 1..(i - 1) : list[j] # x) - 1

(***************************************************************************)
(* The word lists of AdvancedNERExtractor.__init__.                         *)
(***************************************************************************)
excluded_publishers ==
    { <<"r","e","u","t","e","r","s">>, <<"b","l","o","o","m","b","e","r","g">>, <<"c","n","b","c">>,
      <<"c","n","n">>, <<"b","b","c">>, <<"f","o","r","b","e","s">>,
      <<"t","e","c","h","c","r","u","n","c","h">>, <<"t","i","m","e","s">>, <<"p","o","s","t">>,
      <<"g","u","a","r","d","i","a","n">>, <<"j","o","u","r","n","a","l">>, <<"n","e","w","s">>,
      <<"p","r","e","s","s">>, <<"m","e","d","i","a">>, <<"t","r","i","b","u","n","e">>,
      <<"h","e","r","a","l","d">>, <<"g","a","z","e","t","t","e">>, <<"c","h","r","o","n","i","c","l","e">>,
      <<"o","b","s","e","r","v","e","r">>, <<"t","e","l","e","g","r","a","p","h">>, <<"a","s","s","o","c","i","a","t","e","d"," ","p","r","e","s","s">>,
      <<"a","p"," ","n","e","w","s">>, <<"a","f","p">>, <<"p","t","i">>,
      <<"a","n","i">>, <<"i","a","n","s">> }

generic_terms ==
    { <<"g","o","v","e","r","n","m","e","n","t">>, <<"p","o","l","i","c","e">>, <<"c","o","u","r","t">>,
      <<"h","o","s","p","i","t","a","l">>, <<"u","n","i","v","e","r","s","i","t","y">>, <<"s","c","h","o","o","l">>,
      <<"c","o","m","p","a","n","y">>, <<"c","o","r","p","o","r","a","t","i","o","n">>, <<"i","n","d","u","s","t","r","y">>,
      <<"m","a","r","k","e","t">>, <<"s","e","c","t","o","r">>, <<"d","e","p","a","r","t","m","e","n","t">>,
      <<"m","i","n","i","s","t","r","y">>, <<"o","f","f","i","c","e">>, <<"b","u","r","e","a","u">>,
      <<"a","g","e","n","c","y">>, <<"s","e","r","v","i","c","e">>, <<"c","e","n","t","e","r">>,
      <<"i","n","s","t","i","t","u","t","e">>, <<"f","o","u","n","d","a","t","i","o","n">>, <<"t","r","u","s","t">>,
      <<"g","r","o","u","p">>, <<"t","e","a","m">>, <<"c","o","m","m","i","t","t","e","e">>,
      <<"c","o","u","n","c","i","l">>, <<"b","o","a","r","d">>, <<"c","o","m","m","i","s","s","i","o","n">>,
      <<"a","u","t","h","o","r","i","t","y">>, <<"p","e","o","p","l","e">>, <<"p","u","b","l","i","c">>,
      <<"o","f","f","i","c","i","a","l","s">>, <<"s","o","u","r","c","e","s">>, <<"e","x","p","e","r","t","s">>,
      <<"a","n","a","l","y","s","t","s">>, <<"i","n","v","e","s","t","o","r","s">>, <<"c","u","s","t","o","m","e","r","s">>,
      <<"b","u","d","g","e","t">>, <<"m","i","s","s","i","o","n">>, <<"f","u","n","d">>,
      <<"s","c","h","e","m","e">>, <<"p","l","a","n">>, <<"s","u","r","v","e","y">> }

location_indicators ==
    { <<"i","n","d","i","a">>, <<"i","n","d","i","a","n">>, <<"u","s">>,
      <<"u","s","a">>, <<"u","k">>, <<"c","h","i","n","a">>,
      <<"c","h","i","n","e","s","e">>, <<"j","a","p","a","n">>, <<"a","m","e","r","i","c","a">>,
      <<"a","m","e","r","i","c","a","n">>, <<"e","u","r","o","p","e">>, <<"e","u","r","o","p","e","a","n">>,
      <<"a","s","i","a">>, <<"a","s","i","a","n">>, <<"d","e","l","h","i">>,
      <<"m","u","m","b","a","i">>, <<"b","a","n","g","a","l","o","r","e">>, <<"l","o","n","d","o","n">>,
      <<"n","e","w"," ","y","o","r","k">>, <<"b","e","i","j","i","n","g">>, <<"t","o","k","y","o">>,
      <<"s","i","n","g","a","p","o","r","e">>, <<"d","u","b","a","i">>, <<"c","a","l","i","f","o","r","n","i","a">>,
      <<"t","e","x","a","s">>, <<"b","h","a","r","a","t">>, <<"c","e","n","t","r","a","l">>,
      <<"n","a","t","i","o","n","a","l">>, <<"g","l","o","b","a","l">>, <<"i","n","t","e","r","n","a","t","i","o","n","a","l">> }

company_suffixes ==
    { <<"i","n","c">>, <<"c","o","r","p">>, <<"l","t","d">>,
      <<"l","l","c">>, <<"c","o">>, <<"g","r","o","u","p">>,
      <<"h","o","l","d","i","n","g","s">>, <<"t","e","c","h","n","o","l","o","g","i","e","s">>, <<"s","y","s","t","e","m","s">>,
      <<"s","o","l","u","t","i","o","n","s">>, <<"s","e","r","v","i","c","e","s">>, <<"i","n","d","u","s","t","r","i","e","s">>,
      <<"e","n","t","e","r","p","r","i","s","e","s">>, <<"i","n","t","e","r","n","a","t","i","o","n","a","l">>, <<"g","l","o","b","a","l">>,
      <<"m","o","t","o","r","s">>, <<"e","n","e","r","g","y">>, <<"p","h","a","r","m","a">>,
      <<"l","a","b","s">> }

action_verbs ==
    << <<"l","a","u","n","c","h","e","s">>, <<"a","n","n","o","u","n","c","e","s">>, <<"r","e","p","o","r","t","s">>,
       <<"u","n","v","e","i","l","s">>, <<"i","n","t","r","o","d","u","c","e","s">>, <<"a","c","q","u","i","r","e","s">>,
       <<"p","a","r","t","n","e","r","s">>, <<"e","x","p","a","n","d","s">>, <<"r","a","i","s","e","s">>,
       <<"f","i","l","e","s">>, <<"w","i","n","s">> >>

AccordingTo == <<"a","c","c","o","r","d","i","n","g"," ","t","o">>

PossessiveMark == <<"'","s">>

SaidMark == <<" ","s","a","i","d">>

(***************************************************************************)
(* _is_valid_company_name                                                   *)
(***************************************************************************)
\* re.match(r'^[\d\s\-\/]+$', entity)
NumericOnly(entity) ==
    /\ Len(entity) >= 1
    /\ \A i \in 1..Len(entity) :
          entity[i] \in DigitChars \/ IsSpace(entity[i]) \/ entity[i] \in {"-", "/"}

Rule1Publisher(entity) ==
    \E pub \in excluded_publishers : Contains(Strip(Lower(entity)), pub)

Rule2Generic(entity) ==
    /\ ~Contains(Strip(Lower(entity)), <<" ">>)
    /\ Strip(Lower(entity)) \in generic_terms

\* the text is looked up as written, without lower()
Rule3Location_CaseSensitive(entity) == Strip(entity) \in location_indicators

Rule3Location(entity) == Strip(Lower(entity)) \in location_indicators

\* entity[0].isupper(); entity[0] of the empty str raises IndexError
Rule4NotCapitalized(entity) == ~IsUpperChar(entity[1])

Rule5TooShort(entity) == Len(entity) < 3

Rule6ShortAcronym(entity) == StrIsUpper(entity) /\ Len(entity) < 3

Rule7Numeric(entity) == NumericOnly(entity)

\* The number of the first reject rule that fires, 0 when none does.
FirstRejectRule(entity) ==
    IF Rule1Publisher(entity) THEN 1
    ELSE IF Rule2Generic(entity) THEN 2
    ELSE IF Rule3Location(entity) THEN 3
    ELSE IF Rule4NotCapitalized(entity) THEN 4
    ELSE IF Rule5TooShort(entity) THEN 5
    ELSE IF Rule6ShortAcronym(entity) THEN 6
    ELSE IF Rule7Numeric(entity) THEN 7
    ELSE 0

\* the publisher rule is left out
is_valid_company_name_PublishersPass(entity) == FirstRejectRule(entity) \in {0, 1}

is_valid_company_name(entity) == FirstRejectRule(entity) = 0

(***************************************************************************)
(* Doubles.  [n |-> k, e |-> err] is the number (k * 2^54 + err) / 5 in     *)
(* units of 2^-56, that is k/20 + err / (5 * 2^56).  Every literal of the   *)
(* scorer is a whole number of units, and so is every sum of them.          *)
(***************************************************************************)
F(k, err) == [n |-> k, e |-> err]

F0_0 == F(0, 0)

F0_1 == F(2, 2)

F0_15 == F(3, -2)

F0_2 == F(4, 4)

F0_3 == F(6, -4)

F0_4 == F(8, 8)

F1_0 == F(20, 0)

FNeg(a) == F(-a.n, -a.e)

\* a < b and a <= b: the errors are far smaller than a twentieth
FLt(a, b) == a.n < b.n \/ (a.n = b.n /\ a.e < b.e)

FLe(a, b) == a.n < b.n \/ (a.n = b.n /\ a.e <= b.e)

\* The spacing of the doubles around a non-negative x, in units of 2^-56:
\* 1 below 1/8, 2 in [1/8, 1/4), 4 in [1/4, 1/2), 8 in [1/2, 1), 16 in [1, 2).
Spacing(x) ==
    IF x.n < 3 THEN 1
    ELSE IF x.n < 5 \/ (x.n = 5 /\ x.e < 0) THEN 2
    ELSE IF x.n < 10 \/ (x.n = 10 /\ x.e < 0) THEN 4
    ELSE IF x.n < 20 \/ (x.n = 20 /\ x.e < 0) THEN 8
    ELSE 16

\* Round-to-nearest, ties-to-even, of a non-negative whole number of units V.
\* 5 * V = n * 2^54 + e and 5 * 13 = 65 = 1 (mod 32), so V = 13 * e (mod 32).
RoundMagnitude(x) ==
    LET g == Spacing(x)
        v == (13 * x.e) % 32
        r == v % g
        d == IF 2 * r < g THEN -r
             ELSE IF 2 * r > g THEN g - r
             ELSE IF ((v - r) \div g) % 2 = 0 THEN -r ELSE r
    IN  F(x.n, x.e + 5 * d)

RoundToDouble(x) ==
    IF x.n < 0 \/ (x.n = 0 /\ x.e < 0) THEN FNeg(RoundMagnitude(FNeg(x)))
    ELSE RoundMagnitude(x)

\* a + b of two doubles
FAdd(a, b) == RoundToDouble(F(a.n + b.n, a.e + b.e))

FMax(a, b) == IF FLt(a, b) THEN b ELSE a

FMin(a, b) == IF FLt(b, a) THEN b ELSE a

(***************************************************************************)
(* _calculate_involvement_score                                             *)
(***************************************************************************)
Max(a, b) == IF a >= b THEN a ELSE b

Min(a, b) == IF a <= b THEN a ELSE b

\* position_ratio < 0.4 and < 0.6 in place of <=
PositionFactor_Strict(position, total_words) ==
    IF 5 * position < 2 * Max(total_words, 1) THEN F0_3
    ELSE IF 5 * position < 3 * Max(total_words, 1) THEN F0_15
    ELSE F0_0

\* Factor 1: position / max(total_words, 1) against 0.4 and 0.6.  The
\* quotient of two small integers is compared exactly: it rounds to the
\* literal when it equals it and stays on its side otherwise.
PositionFactor(position, total_words) ==
    IF 5 * position <= 2 * Max(total_words, 1) THEN F0_3
    ELSE IF 5 * position <= 3 * Max(total_words, 1) THEN F0_15
    ELSE F0_0

\* the verb that stands first in the headline, not the first of action_verbs
FirstVerb_InHeadlineOrder(headline_words) ==
    LET found == {k \in 1..Len(action_verbs) : InList(headline_words, action_verbs[k])}
    IN  IF found = {} THEN 0
        ELSE CHOOSE k \in found :
                 \A j \in found : Index(headline_words, action_verbs[k])
                                     <= Index(headline_words, action_verbs[j])

\* for verb in action_verbs: if verb in headline_words: ...; break
FirstVerb(headline_words) ==
    LET found == {k \in 1..Len(action_verbs) : InList(headline_words, action_verbs[k])}
    IN  IF found = {} THEN 0 ELSE CHOOSE k \in found : \A j \in found : k <= j

\* Factor 2: some word of the entity stands before the first verb of
\* action_verbs that the headline holds.
SubjectFactor(entity_lower, headline_lower) ==
    LET headline_words == Split(headline_lower)
        entity_words == Split(entity_lower)
        k == FirstVerb(headline_words)
    IN  IF k = 0 THEN F0_0
        ELSE IF \E w \in 1..Len(entity_words) :
                    /\ InList(headline_words, entity_words[w])
                    /\ Index(headline_words, entity_words[w])
                         < Index(headline_words, action_verbs[k])
             THEN F0_4
             ELSE F0_0

\* Factor 3: possessive or "said" (+0.2), else a citation (-0.2)
AttributionFactor(entity_lower, headline_lower) ==
    IF \/ Contains(headline_lower, entity_lower \o PossessiveMark)
       \/ Contains(headline_lower, entity_lower \o SaidMark)
    THEN F0_2
    ELSE IF /\ Contains(headline_lower, AccordingTo)
            /\ Contains(StrSplit(headline_lower, AccordingTo)[2], entity_lower)
         THEN FNeg(F0_2)
         ELSE F0_0

\* Factor 4: the entity occurs exactly once in the headline
StandaloneFactor(entity_lower, headline_lower) ==
    IF Count(headline_lower, entity_lower) = 1 THEN F0_1 ELSE F0_0

\* line 210: headline_lower.split("according to")[1] raises IndexError when
\* the split gives fewer than two parts
ScoreRaises(entity, headline) ==
    LET entity_lower == Lower(entity)
        headline_lower == Lower(headline)
    IN  /\ ~Contains(headline_lower, entity_lower \o PossessiveMark)
        /\ ~Contains(headline_lower, entity_lower \o SaidMark)
        /\ Contains(headline_lower, AccordingTo)
        /\ Len(StrSplit(headline_lower, AccordingTo)) < 2

\* score += x, executed only when the factor applies
AddIf(score, x) == IF x = F0_0 THEN score ELSE FAdd(score, x)

\* The score before the final clamp.
RawScore(entity, headline, position, total_words) ==
    LET entity_lower == Lower(entity)
        headline_lower == Lower(headline)
        s1 == AddIf(F0_0, PositionFactor(position, total_words))
        s2 == AddIf(s1, SubjectFactor(entity_lower, headline_lower))
        s3 == AddIf(s2, AttributionFactor(entity_lower, headline_lower))
    IN  AddIf(s3, StandaloneFactor(entity_lower, headline_lower))

\* return score, without min(max(score, 0.0), 1.0)
calculate_involvement_score_NoClamp(entity, headline, position, total_words) ==
    RawScore(entity, headline, position, total_words)

calculate_involvement_score(entity, headline, position, total_words) ==
    FMin(FMax(RawScore(entity, headline, position, total_words), F0_0), F1_0)

(***************************************************************************)
(* _extract_with_patterns                                                   *)
(***************************************************************************)
RECURSIVE ExtendSpan_Cap5(_, _, _)
\* j < i + 5: a span may hold five words
ExtendSpan_Cap5(words, i, j) ==
    IF /\ j <= Len(words)
       /\ j < i + 5
       /\ (IsUpperChar(words[j][1]) \/ Lower(words[j]) \in company_suffixes)
    THEN ExtendSpan_Cap5(words, i, j + 1)
    ELSE j

RECURSIVE ExtendSpan_UpperOnly(_, _, _)
\* only  words[j][0].isupper(): a lowercase suffix word ends the span
ExtendSpan_UpperOnly(words, i, j) ==
    IF /\ j <= Len(words)
       /\ j < i + 4
       /\ IsUpperChar(words[j][1])
    THEN ExtendSpan_UpperOnly(words, i, j + 1)
    ELSE j

RECURSIVE ExtendSpan(_, _, _)
\* the inner while: j advances over uppercase-first or suffix words, j < i + 4
ExtendSpan(words, i, j) ==
    IF /\ j <= Len(words)
       /\ j < i + 4
       /\ (IsUpperChar(words[j][1]) \/ Lower(words[j]) \in company_suffixes)
    THEN ExtendSpan(words, i, j + 1)
    ELSE j

RECURSIVE ScanFrom(_, _, _)
\* the outer while; positions are the zero-based word indices
ScanFrom(words, i, entities) ==
    IF i > Len(words) THEN entities
    ELSE IF IsUpperChar(words[i][1])
         THEN LET j == ExtendSpan(words, i, i + 1)
              IN  ScanFrom(words, j,
                           Append(entities, << Join(SubSeq(words, i, j - 1)), i - 1 >>))
         ELSE ScanFrom(words, i + 1, entities)

\* lines 303 and 308: words[i][0] raises IndexError on an empty token
PatternsRaise(text) == \E k \in 1..Len(Split(text)) : Len(Split(text)[k]) = 0

extract_with_patterns(text) == ScanFrom(Split(text), 1, <<>>)

(***************************************************************************)
(* _extract_with_transformers.  self.ner is an external model: for a text   *)
(* it raises or answers a list of items.  The answers modelled are the      *)
(* lists of at most MaxNerItems items taken, in order, from NerItems(text). *)
(***************************************************************************)
MaxNerItems == 2

MaxNerTokens == 3

RECURSIVE TokenStartsFrom(_, _)
\* the zero-based offsets at which the tokens of text start
TokenStartsFrom(text, i) ==
    IF i > Len(text) THEN <<>>
    ELSE IF ~IsSpace(text[i]) /\ (i = 1 \/ IsSpace(text[i - 1]))
         THEN <<i - 1>> \o TokenStartsFrom(text, i + 1)
         ELSE TokenStartsFrom(text, i + 1)

TokenStarts(text) == TokenStartsFrom(text, 1)

NerItem(group, word, start) == [entity_group |-> group, word |-> word, start |-> start]

\* the items a tagger may report: each of the first MaxNerTokens tokens as an
\* organisation, the first token as a person, and an organisation whose word is blank
NerItems(text) ==
    LET words == Split(text)
        starts == TokenStarts(text)
        n == Min(Len(words), MaxNerTokens)
    IN  [k \in 1..n |-> NerItem("ORG", words[k], starts[k])]
        \o (IF n >= 1 THEN << NerItem("PER", words[1], starts[1]) >> ELSE <<>>)
        \o << NerItem("ORG", <<" ">>, 0) >>

RECURSIVE Sublists(_, _)
\* the subsequences of list with at most n elements
Sublists(list, n) ==
    IF list = <<>> \/ n = 0 THEN { <<>> }
    ELSE Sublists(Tail(list), n)
         \cup { << Head(list) >> \o rest : rest \in Sublists(Tail(list), n - 1) }

\* what self.ner(text) does: it raises, or returns a list of items
NerAnswers(text) ==
    { [raises |-> TRUE, items |-> <<>>] }
    \cup { [raises |-> FALSE, items |-> items] : items \in Sublists(NerItems(text), MaxNerItems) }

RECURSIVE OrgEntities(_, _, _)
\* the for loop of the try block: only ORG items, the word stripped, the
\* position the number of tokens of text[:start]
OrgEntities(text, items, k) ==
    IF k > Len(items) THEN <<>>
    ELSE IF items[k].entity_group = "ORG"
         THEN << << Strip(items[k].word), Len(Split(SubSeq(text, 1, items[k].start))) >> >>
              \o OrgEntities(text, items, k + 1)
         ELSE OrgEntities(text, items, k + 1)

\* except: return [] instead of the pattern-based fallback
extract_with_transformers_NoFallback(text, answer) ==
    IF answer.raises THEN <<>>
    ELSE OrgEntities(text, answer.items, 1)

extract_with_transformers(text, answer) ==
    IF answer.raises THEN extract_with_patterns(text)
    ELSE OrgEntities(text, answer.items, 1)

(***************************************************************************)
(* Articles.  An article is a dict; has_title and has_source tell whether   *)
(* the keys 'title' and 'source' are present.  The pool holds headlines     *)
(* with one and two entities, a repeated entity, publishers, locations, a   *)
(* citation, a too short title and a missing title.                         *)
(***************************************************************************)
ArticlePool ==
    { [has_title |-> TRUE, title |-> <<"T","e","s","l","a"," ","u","n","v","e","i","l","s"," ","n","e","w"," ","f","a","c","t","o","r","y"," ","i","n"," ","T","e","x","a","s">>, has_source |-> TRUE, source |-> "Wire"],
      [has_title |-> TRUE, title |-> <<"A","c","c","o","r","d","i","n","g"," ","t","o"," ","A","c","m","e"," ","s","a","l","e","s"," ","d","r","o","p"," ","f","a","s","t">>, has_source |-> TRUE, source |-> "Daily"],
      [has_title |-> TRUE, title |-> <<"A","c","m","e"," ","s","a","i","d"," ","T","e","s","l","a"," ","l","a","u","n","c","h","e","s"," ","c","a","r">>, has_source |-> TRUE, source |-> "Wire"],
      [has_title |-> TRUE, title |-> <<"R","e","u","t","e","r","s"," ","r","e","p","o","r","t","s"," ","G","o","o","g","l","e"," ","w","i","n","s"," ","c","a","s","e">>, has_source |-> TRUE, source |-> "Daily"],
      [has_title |-> TRUE, title |-> <<"A","c","m","e"," ","b","u","y","s"," ","A","c","m","e"," ","r","i","v","a","l"," ","t","o","d","a","y"," ","o","k">>, has_source |-> FALSE, source |-> ""],
      [has_title |-> TRUE, title |-> <<"G","o","o","g","l","e"," ","a","n","d"," ","A","c","m","e"," ","b","o","t","h"," ","s","a","i","d"," ","n","o">>, has_source |-> TRUE, source |-> "Wire"],
      [has_title |-> TRUE, title |-> <<"A","p","p","l","e"," ","I","n","c"," ","l","a","u","n","c","h","e","s"," ","n","e","w"," ","p","h","o","n","e"," ","t","o","d","a","y">>, has_source |-> TRUE, source |-> "Daily"],
      [has_title |-> TRUE, title |-> <<"T","e","s","l","a"," ","u","p">>, has_source |-> TRUE, source |-> "Daily"],
      [has_title |-> FALSE, title |-> <<>>, has_source |-> TRUE, source |-> "Wire"] }

\* the article lists of length 0..n over the pool
ArticleLists(n) == UNION {[1..k -> ArticlePool] : k \in 0..n}

\* article.get('title', '')
GetTitle(article) == IF article.has_title THEN article.title ELSE <<>>

\* article.get('source', 'Unknown')
GetSource(article) == IF article.has_source THEN article.source ELSE "Unknown"

VARIABLES
    articles,          \* the argument of extract_top_companies / extract_entities_ner
    top_n,             \* the argument top_n
    pc,                \* "call", "loop", "rank", "slice", "done", or "raised"
    idx,               \* the article the for loop of extract_entities_ner is at
    entity_data,       \* the defaultdict, as the sequence of its records in insertion order
    total_articles,    \* the argument total_articles of rank_by_dominance
    ranked,            \* the list rank_by_dominance returns
    result,            \* the list extract_top_companies returns
    run,               \* 1 in the first run over the article list, 2 in the second
    first_entity_data, \* the records of the first run
    first_ranked,      \* the ranking of the first run
    args,              \* the arguments of a direct call of one of the pure methods
    returned,          \* what that call returned
    ner,               \* whether self.ner is set (the transformers pipeline loaded)
    gemini_available,  \* the module global GEMINI_AVAILABLE
    gemini_cache,      \* self.gemini_cache, as the set of its key/value pairs
    gemini_calls,      \* the calls of the external validator made so far in this run
    ner_calls          \* the calls of self.ner so far in this run: the text, raised or not

vars == << articles, top_n, pc, idx, entity_data, total_articles, ranked, result,
           run, first_entity_data, first_ranked, args, returned,
           ner, gemini_available, gemini_cache, gemini_calls, ner_calls >>

\* the external capabilities and what is recorded of their use
envVars == << ner, gemini_available, gemini_cache, gemini_calls, ner_calls >>

\* the variables of a direct call of _is_valid_company_name or
\* _calculate_involvement_score, which the pipeline leaves alone
callVars == << args, returned >>

(***************************************************************************)
(* extract_entities_ner                                                     *)
(***************************************************************************)
\* the value the defaultdict makes for a new key
DefaultRecord(entity) ==
    [name |-> entity, mentions |-> 0, involvement_scores |-> <<>>,
     headlines |-> <<>>, article_count |-> 0, sources |-> {}]

HasKey(data, entity) == \E i \in 1..Len(data) : data[i].name = entity

\* entity_data[entity]: a new key is appended with the default record
Touch(data, entity) == IF HasKey(data, entity) THEN data ELSE Append(data, DefaultRecord(entity))

\* the occurrence is counted and scored but its headline is not kept
CountOccurrence_NoHeadline(r, involvement, headline, source) ==
    [r EXCEPT !.mentions = @ + 1,
              !.involvement_scores = Append(@, involvement),
              !.sources = @ \cup {source}]

\* a headline the record already holds is not appended again
CountOccurrence_DistinctHeadline(r, involvement, headline, source) ==
    [r EXCEPT !.mentions = @ + 1,
              !.involvement_scores = Append(@, involvement),
              !.headlines = IF \E i \in 1..Len(@) : @[i] = headline
                            THEN @ ELSE Append(@, headline),
              !.sources = @ \cup {source}]

\* lines 266-269: the four updates of one counted occurrence
CountOccurrence(r, involvement, headline, source) ==
    [r EXCEPT !.mentions = @ + 1,
              !.involvement_scores = Append(@, involvement),
              !.headlines = Append(@, headline),
              !.sources = @ \cup {source}]

\* an entity is counted on its first occurrence only
Record_OnceAnEntity(data, entity, involvement, headline, source) ==
    IF HasKey(data, entity) THEN data
    ELSE Append(data, CountOccurrence(DefaultRecord(entity), involvement, headline, source))

Record(data, entity, involvement, headline, source) ==
    LET touched == Touch(data, entity)
    IN  [i \in 1..Len(touched) |->
            IF touched[i].name = entity
            THEN CountOccurrence(touched[i], involvement, headline, source)
            ELSE touched[i]]

\* involvement > 0.2: a score of exactly 0.2 is discarded
AboveThreshold_Strict(involvement) == FLt(F0_2, involvement)

\* involvement >= 0.2
AboveThreshold(involvement) == FLe(F0_2, involvement)

(***************************************************************************)
(* _validate_with_gemini.  The external model either raises or answers a   *)
(* text.                                                                    *)
(***************************************************************************)
GeminiResponses ==
    { [raises |-> TRUE, text |-> <<>>],
      [raises |-> FALSE, text |-> <<"Y","E","S">>],
      [raises |-> FALSE, text |-> <<"N","O">>],
      [raises |-> FALSE, text |-> <<" ","Y","e","s","."," ">>] }

\* the response slot of a candidate for which the external model is not called
NoResponse == [raises |-> TRUE, text |-> <<>>]

\* f"{entity}|{headline}"
CacheKey(entity, headline) == entity \o <<"|">> \o headline

InCache(cache, key) == \E c \in cache : c.key = key

CacheGet(cache, key) == (CHOOSE c \in cache : c.key = key).value

\* any(s in entity.lower() for s in self.company_suffixes)
is_obvious_company(entity) == \E s \in company_suffixes : Contains(Lower(entity), s)

\* fail-closed: a call that raises rejects the candidate
validate_with_gemini_FailClosed(entity, headline, cache, response) ==
    LET cache_key == CacheKey(entity, headline)
        answered == [valid |-> TRUE, cache |-> cache, called |-> FALSE]
    IN  IF ~gemini_available THEN answered
        ELSE IF InCache(cache, cache_key)
             THEN [answered EXCEPT !.valid = CacheGet(cache, cache_key)]
        ELSE IF Len(Split(entity)) > 2 /\ is_obvious_company(entity) THEN answered
        ELSE IF response.raises THEN [answered EXCEPT !.called = TRUE, !.valid = FALSE]
        ELSE LET is_valid == Contains(Upper(Strip(response.text)), <<"Y","E","S">>)
             IN  [valid |-> is_valid,
                  cache |-> cache \cup {[key |-> cache_key, value |-> is_valid]},
                  called |-> TRUE]

\* the verdict, the cache after the call, and whether the external model was called
validate_with_gemini(entity, headline, cache, response) ==
    LET cache_key == CacheKey(entity, headline)
        answered == [valid |-> TRUE, cache |-> cache, called |-> FALSE]
    IN  IF ~gemini_available THEN answered
        ELSE IF InCache(cache, cache_key)
             THEN [answered EXCEPT !.valid = CacheGet(cache, cache_key)]
        ELSE IF Len(Split(entity)) > 2 /\ is_obvious_company(entity) THEN answered
        ELSE IF response.raises THEN [answered EXCEPT !.called = TRUE]
        ELSE LET is_valid == Contains(Upper(Strip(response.text)), <<"Y","E","S">>)
             IN  [valid |-> is_valid,
                  cache |-> cache \cup {[key |-> cache_key, value |-> is_valid]},
                  called |-> TRUE]

(***************************************************************************)
(* The loop of extract_entities_ner.  Its state st holds the defaultdict,   *)
(* the validator cache, the calls made, and whether an exception left the   *)
(* loop.                                                                    *)
(***************************************************************************)
\* entity[0] of an empty entity: rules 1 to 3 do not fire on it, rule 4 raises IndexError
NameCheckRaises(entity) ==
    /\ Len(entity) = 0
    /\ ~Rule1Publisher(entity)
    /\ ~Rule2Generic(entity)
    /\ ~Rule3Location(entity)

LogCall(calls, entity, headline, response, valid) ==
    Append(calls, [entity |-> entity, headline |-> headline,
                   raised |-> response.raises, valid |-> valid])

\* the body of  for entity, position in entities
ProcessCandidate(st, entity, position, headline, source, total_words, response) ==
    IF st.raised THEN st
    ELSE IF NameCheckRaises(entity) THEN [st EXCEPT !.raised = TRUE]
    ELSE IF ~is_valid_company_name(entity) THEN st
    ELSE LET v == validate_with_gemini(entity, headline, st.cache, response)
             called == [st EXCEPT !.cache = v.cache,
                                  !.calls = IF v.called
                                            THEN LogCall(@, entity, headline, response, v.valid)
                                            ELSE @]
             involvement ==
                 calculate_involvement_score(entity, headline, position, total_words)
         IN  IF ~v.valid THEN called
             ELSE IF ScoreRaises(entity, headline) THEN [called EXCEPT !.raised = TRUE]
             ELSE IF AboveThreshold(involvement)
                  THEN [called EXCEPT
                           !.data = Record(@, entity, involvement, headline, source)]
                  ELSE called

\* whether the body reaches the call of the external model for this candidate
CallsGemini(st, entity, headline) ==
    /\ ~st.raised
    /\ ~NameCheckRaises(entity)
    /\ is_valid_company_name(entity)
    /\ validate_with_gemini(entity, headline, st.cache, NoResponse).called

\* the states the body may leave, one for each thing the external model may do
ProcessCandidateAny(st, entity, position, headline, source, total_words) ==
    { ProcessCandidate(st, entity, position, headline, source, total_words, response) :
        response \in IF CallsGemini(st, entity, headline)
                      THEN GeminiResponses ELSE { NoResponse } }

RECURSIVE ProcessCandidates(_, _, _, _, _, _)
\* the for loop over the candidates, from each state of sts
ProcessCandidates(sts, entities, k, headline, source, total_words) ==
    IF k > Len(entities) THEN sts
    ELSE ProcessCandidates(
             UNION { ProcessCandidateAny(st, entities[k][1], entities[k][2],
                                         headline, source, total_words) : st \in sts },
             entities, k + 1, headline, source, total_words)

\* only  if not headline: a short headline is processed
Skipped_OnlyEmpty(headline) == headline = <<>>

\* if not headline or len(headline) < 10: continue
Skipped(headline) == headline = <<>> \/ Len(headline) < 10

\* lines 241-244: what the tagger in use may do on a headline: whether
\* self.ner raised, and the candidates handed to the loop
Taggings(headline) ==
    IF ner THEN { [raised |-> answer.raises,
                   entities |-> extract_with_transformers(headline, answer)]
                  : answer \in NerAnswers(headline) }
    ELSE { [raised |-> FALSE, entities |-> extract_with_patterns(headline)] }

\* the candidate lists the tagger in use may give for a headline
Candidates(headline) == { t.entities : t \in Taggings(headline) }

\* self.ner was called on the headline, and raised or not
LogTagging(st, headline, raised) ==
    [st EXCEPT !.ner_calls = IF ner THEN Append(@, [text |-> headline, raised |-> raised])
                             ELSE @]

\* one iteration of  for article in articles: the states it may leave
ProcessOne(st, article) ==
    LET headline == GetTitle(article)
        source == GetSource(article)
    IN  IF Skipped(headline) THEN { st }
        ELSE IF ~ner /\ PatternsRaise(headline) THEN { [st EXCEPT !.raised = TRUE] }
        ELSE UNION { IF t.raised /\ PatternsRaise(headline)
                     THEN { [LogTagging(st, headline, t.raised) EXCEPT !.raised = TRUE] }
                     ELSE ProcessCandidates({ LogTagging(st, headline, t.raised) },
                                            t.entities, 1, headline, source,
                                            Len(Split(headline)))
                     : t \in Taggings(headline) }

\* lines 272-273: article_count = len(headlines) for every record
\* article_count as the number of different headlines of the entity
SetArticleCounts_Distinct(data) ==
    [i \in 1..Len(data) |->
        [data[i] EXCEPT !.article_count =
            Cardinality({ data[i].headlines[k] : k \in 1..Len(data[i].headlines) })]]

SetArticleCounts(data) ==
    [i \in 1..Len(data) |-> [data[i] EXCEPT !.article_count = Len(data[i].headlines)]]

(***************************************************************************)
(* rank_by_dominance.  Quotients are exact rationals num / den; a rounded   *)
(* value is a whole number of hundredths (round(x, 2)) or tenths            *)
(* (round(x, 1)).                                                           *)
(***************************************************************************)
\* round() of num / den, num >= 0 and den > 0, a tie going to the even neighbour
RoundHalfEven(num, den) ==
    LET q == num \div den
        r == num % den
    IN  IF 2 * r < den THEN q
        ELSE IF 2 * r > den THEN q + 1
        ELSE IF q % 2 = 0 THEN q ELSE q + 1

RECURSIVE SumNominal(_)
\* sum(involvement_scores), in twentieths
SumNominal(scores) ==
    IF scores = <<>> THEN 0 ELSE scores[1].n + SumNominal(Tail(scores))

\* min_mentions = 1 whatever the corpus size
MinMentions_AlwaysOne(total) == 1

\* min_mentions = 1 if total_articles < 10 else 2
MinMentions(total) == IF total < 10 THEN 1 ELSE 2

\* the floor is 0.003 for every corpus
MinCoverage_AlwaysLow(total) == 3

\* min_coverage = 0.003 if total_articles < 100 else 0.005, in thousandths
MinCoverage(total) == IF total < 100 THEN 3 ELSE 5

\* lines 337-345: the two noise floors
PassesMentionFloor(d, total) == d.mentions >= MinMentions(total)

\* coverage_ratio <= min_coverage rejects: a ratio equal to the floor is rejected too
PassesCoverageFloor_Above(d, total) ==
    1000 * d.article_count > MinCoverage(total) * Max(total, 1)

PassesCoverageFloor(d, total) ==
    ~(1000 * d.article_count < MinCoverage(total) * Max(total, 1))

Survives(d, total) == PassesMentionFloor(d, total) /\ PassesCoverageFloor(d, total)

\* coverage_ratio * 100 without its cap of 30 points
CoverageNum_NoCap(d, total) == 100 * d.article_count

\* min(coverage_ratio * 100, 30), over Max(total, 1)
CoverageNum(d, total) == Min(100 * d.article_count, 30 * Max(total, 1))

\* avg_involvement * 40 = 2 * sum / len in points, over Max(len, 1)
InvolvementNum(d) == 2 * SumNominal(d.involvement_scores)

\* min(sources / 10, 1.0) * 20, a whole number of points
DiversityPoints(d) == Min(2 * Cardinality(d.sources), 20)

\* min(mentions / max(article_count, 1), 1.0) * 10: the division by 3 is lost
ConsistencyNum_NoThird(d) == Min(30 * d.mentions, 30 * Max(d.article_count, 1))

\* min((mentions / max(article_count, 1)) / 3, 1.0) * 10, over 3 * Max(article_count, 1)
ConsistencyNum(d) == Min(10 * d.mentions, 30 * Max(d.article_count, 1))

\* dominance_score before rounding, as DominanceNum / DominanceDen
DominanceDen(d, total) ==
    Max(total, 1) * Max(Len(d.involvement_scores), 1) * 3 * Max(d.article_count, 1)

DominanceNum(d, total) ==
    LET t == Max(total, 1)
        l == Max(Len(d.involvement_scores), 1)
        a == 3 * Max(d.article_count, 1)
    IN  CoverageNum(d, total) * l * a
        + InvolvementNum(d) * t * a
        + DiversityPoints(d) * t * l * a
        + ConsistencyNum(d) * t * l

\* lines 362-371: the entry appended for a surviving entity
Entry(d, total) ==
    [name |-> d.name,
     mentions |-> d.mentions,
     articles |-> d.article_count,
     coverage_pct |-> RoundHalfEven(10000 * d.article_count, Max(total, 1)),
     avg_involvement |->
         RoundHalfEven(50 * SumNominal(d.involvement_scores),
                       Max(Len(d.involvement_scores), 1)),
     sources |-> Cardinality(d.sources),
     dominance_score |-> RoundHalfEven(100 * DominanceNum(d, total), DominanceDen(d, total)),
     entity_type |-> "company"]

RECURSIVE Entries(_, _)
\* the for loop over data.items(), in the dict's order
Entries(data, total) ==
    IF data = <<>> THEN <<>>
    ELSE (IF Survives(data[1], total) THEN << Entry(data[1], total) >> ELSE <<>>)
         \o Entries(Tail(data), total)

RECURSIVE InsertDesc_TiesFirst(_, _)
\* a sort that puts an entry before the entries of equal score
InsertDesc_TiesFirst(sorted, x) ==
    IF sorted = <<>> THEN << x >>
    ELSE IF sorted[1].dominance_score > x.dominance_score
         THEN << sorted[1] >> \o InsertDesc_TiesFirst(Tail(sorted), x)
         ELSE << x >> \o sorted

RECURSIVE InsertDesc(_, _)
\* x goes behind every entry whose score is at least its own
InsertDesc(sorted, x) ==
    IF sorted = <<>> THEN << x >>
    ELSE IF sorted[1].dominance_score >= x.dominance_score
         THEN << sorted[1] >> \o InsertDesc(Tail(sorted), x)
         ELSE << x >> \o sorted

RECURSIVE SortFrom(_, _, _)
SortFrom(list, k, sorted) ==
    IF k > Len(list) THEN sorted ELSE SortFrom(list, k + 1, InsertDesc(sorted, list[k]))

\* ranked.sort(key=dominance_score, reverse=True): a stable sort
SortByDominance(list) == SortFrom(list, 1, <<>>)

\* enumerate(ranked) without the start of 1
AssignRanks_ZeroBased(list) ==
    [i \in 1..Len(list) |->
        [name |-> list[i].name, mentions |-> list[i].mentions,
         articles |-> list[i].articles, coverage_pct |-> list[i].coverage_pct,
         avg_involvement |-> list[i].avg_involvement, sources |-> list[i].sources,
         dominance_score |-> list[i].dominance_score,
         entity_type |-> list[i].entity_type, rank |-> i - 1]]

\* for i, item in enumerate(ranked, 1): item['rank'] = i
AssignRanks(list) ==
    [i \in 1..Len(list) |->
        [name |-> list[i].name, mentions |-> list[i].mentions,
         articles |-> list[i].articles, coverage_pct |-> list[i].coverage_pct,
         avg_involvement |-> list[i].avg_involvement, sources |-> list[i].sources,
         dominance_score |-> list[i].dominance_score,
         entity_type |-> list[i].entity_type, rank |-> i]]

rank_by_dominance(data, total) == AssignRanks(SortByDominance(Entries(data, total)))

\* ranked[:top_n] for top_n >= 0
TopN(list, n) == SubSeq(list, 1, Min(n, Len(list)))

(***************************************************************************)
(* extract_top_companies without external capabilities, run twice over the  *)
(* same article list.                                                       *)
(***************************************************************************)
\* no transformers pipeline and no GEMINI_API_KEY
NoExternals ==
    /\ ner = FALSE
    /\ gemini_available = FALSE
    /\ gemini_cache = {}
    /\ gemini_calls = <<>>
    /\ ner_calls = <<>>

Init ==
    /\ articles \in ArticleLists(MaxArticles)
    /\ top_n \in 0..MaxTopN
    /\ pc = "call"
    /\ idx = 1
    /\ entity_data = <<>>
    /\ total_articles = 0
    /\ ranked = <<>>
    /\ result = <<>>
    /\ run = 1
    /\ first_entity_data = <<>>
    /\ first_ranked = <<>>
    /\ args = <<>>
    /\ returned = <<>>
    /\ NoExternals

\* if not articles: return []
ReturnEmpty ==
    /\ pc = "call"
    /\ articles = <<>>
    /\ result' = <<>>
    /\ pc' = "done"
    /\ UNCHANGED << articles, top_n, idx, entity_data, total_articles, ranked,
                    run, first_entity_data, first_ranked >>
    /\ UNCHANGED callVars
    /\ UNCHANGED envVars

\* the guard  if not articles  is missing: an empty list enters the extraction
EnterExtract_NoEmptyCheck ==
    /\ pc = "call"
    /\ entity_data' = <<>>
    /\ gemini_cache' = {}
    /\ gemini_calls' = <<>>
    /\ ner_calls' = <<>>
    /\ idx' = 1
    /\ pc' = "loop"
    /\ UNCHANGED << articles, top_n, total_articles, ranked, result,
                    run, first_entity_data, first_ranked, ner, gemini_available >>
    /\ UNCHANGED callVars

\* the records of the previous call are kept, as if entity_data outlived a call
EnterExtract_KeepData ==
    /\ pc = "call"
    /\ articles # <<>>
    /\ entity_data' = entity_data
    /\ gemini_cache' = {}
    /\ gemini_calls' = <<>>
    /\ ner_calls' = <<>>
    /\ idx' = 1
    /\ pc' = "loop"
    /\ UNCHANGED << articles, top_n, total_articles, ranked, result,
                    run, first_entity_data, first_ranked, ner, gemini_available >>
    /\ UNCHANGED callVars

\* extractor = AdvancedNERExtractor() has an empty cache, and
\* extractor.extract_entities_ner(articles) is entered with an empty defaultdict
EnterExtract ==
    /\ pc = "call"
    /\ articles # <<>>
    /\ entity_data' = <<>>
    /\ gemini_cache' = {}
    /\ gemini_calls' = <<>>
    /\ ner_calls' = <<>>
    /\ idx' = 1
    /\ pc' = "loop"
    /\ UNCHANGED << articles, top_n, total_articles, ranked, result,
                    run, first_entity_data, first_ranked, ner, gemini_available >>
    /\ UNCHANGED callVars

\* the state of the loop of extract_entities_ner before an iteration
LoopState ==
    [data |-> entity_data, cache |-> gemini_cache, calls |-> gemini_calls,
     ner_calls |-> ner_calls, raised |-> FALSE]

\* one iteration of  for article in articles; an exception of the body leaves
\* extract_entities_ner and extract_top_companies
ProcessArticle ==
    /\ pc = "loop"
    /\ idx <= Len(articles)
    /\ \E out \in ProcessOne(LoopState, articles[idx]) :
          /\ entity_data' = out.data
          /\ gemini_cache' = out.cache
          /\ gemini_calls' = out.calls
          /\ ner_calls' = out.ner_calls
          /\ pc' = IF out.raised THEN "raised" ELSE pc
          /\ idx' = IF out.raised THEN idx ELSE idx + 1
    /\ UNCHANGED << articles, top_n, total_articles, ranked, result,
                    run, first_entity_data, first_ranked, ner, gemini_available >>
    /\ UNCHANGED callVars

\* the article_count loop and the return; the caller passes len(articles)
ReturnEntities ==
    /\ pc = "loop"
    /\ idx > Len(articles)
    /\ entity_data' = SetArticleCounts(entity_data)
    /\ total_articles' = Len(articles)
    /\ pc' = "rank"
    /\ UNCHANGED << articles, top_n, idx, ranked, result,
                    run, first_entity_data, first_ranked >>
    /\ UNCHANGED callVars
    /\ UNCHANGED envVars

\* ranked = extractor.rank_by_dominance(entity_data, len(articles))
RankByDominance ==
    /\ pc = "rank"
    /\ ranked' = rank_by_dominance(entity_data, total_articles)
    /\ pc' = "slice"
    /\ UNCHANGED << articles, top_n, idx, entity_data, total_articles, result,
                    run, first_entity_data, first_ranked >>
    /\ UNCHANGED callVars
    /\ UNCHANGED envVars

\* return ranked[:top_n]
ReturnTopN ==
    /\ pc = "slice"
    /\ result' = TopN(ranked, top_n)
    /\ pc' = "done"
    /\ UNCHANGED << articles, top_n, idx, entity_data, total_articles, ranked,
                    run, first_entity_data, first_ranked >>
    /\ UNCHANGED callVars
    /\ UNCHANGED envVars

\* the caller keeps the results and calls extract_top_companies again
RunAgain ==
    /\ pc = "done"
    /\ run = 1
    /\ first_entity_data' = entity_data
    /\ first_ranked' = ranked
    /\ run' = 2
    /\ pc' = "call"
    /\ UNCHANGED << articles, top_n, idx, entity_data, total_articles, ranked, result >>
    /\ UNCHANGED callVars
    /\ UNCHANGED envVars

Next ==
    \/ ReturnEmpty
    \/ EnterExtract
    \/ ProcessArticle
    \/ ReturnEntities
    \/ RankByDominance
    \/ ReturnTopN
    \/ RunAgain

Spec == Init /\ [][Next]_vars

(***************************************************************************)
(* extract_top_companies with the external tagger and the external          *)
(* validator present or absent.                                             *)
(***************************************************************************)
ExtAcme ==
    [has_title |-> TRUE, title |-> <<"A","c","m","e"," ","b","u","y","s"," ","A","c","m","e"," ","r","i","v","a","l"," ","t","o","d","a","y"," ","o","k">>, has_source |-> FALSE, source |-> ""]

ExtTata ==
    [has_title |-> TRUE, title |-> <<"T","a","t","a"," ","M","o","t","o","r","s"," ","G","r","o","u","p"," ","w","i","n","s"," ","b","i","g"," ","o","r","d","e","r">>, has_source |-> TRUE, source |-> "Wire"]

ExtReuters ==
    [has_title |-> TRUE, title |-> <<"R","e","u","t","e","r","s"," ","r","e","p","o","r","t","s"," ","G","o","o","g","l","e"," ","w","i","n","s"," ","c","a","s","e">>, has_source |-> TRUE, source |-> "Daily"]

ExtSaid ==
    [has_title |-> TRUE, title |-> <<"A","c","m","e"," ","s","a","i","d"," ","T","e","s","l","a"," ","l","a","u","n","c","h","e","s"," ","c","a","r">>, has_source |-> TRUE, source |-> "Wire"]

\* an article without the key 'title'
ExtUntitled ==
    [has_title |-> FALSE, title |-> <<>>, has_source |-> TRUE, source |-> "Wire"]

\* an article whose title is ''
ExtEmptyTitle ==
    [has_title |-> TRUE, title |-> <<>>, has_source |-> TRUE, source |-> "Wire"]

ExtShort ==
    [has_title |-> TRUE, title |-> <<"T","e","s","l","a"," ","u","p">>, has_source |-> TRUE, source |-> "Daily"]

\* the article lists run with external capabilities: none, skipped articles, a
\* repeated entity, a repeated article, an entity of three words with a
\* suffix, a publisher, two entities in one headline
ExtArticleLists ==
    { <<>>, << ExtShort >>, << ExtAcme >>, << ExtTata >>, << ExtSaid >>,
      << ExtAcme, ExtAcme >>, << ExtShort, ExtReuters >>, << ExtTata, ExtAcme >>,
      << ExtReuters, ExtShort, ExtTata >>, << ExtUntitled, ExtEmptyTitle, ExtSaid >> }

\* the transformers pipeline loaded or not, GEMINI_API_KEY set or not
SomeExternal ==
    /\ ner \in BOOLEAN
    /\ gemini_available \in BOOLEAN
    /\ ner \/ gemini_available
    /\ gemini_cache = {}
    /\ gemini_calls = <<>>
    /\ ner_calls = <<>>

InitExt ==
    /\ \/ NoExternals /\ articles \in ArticleLists(MaxArticles)
       \/ SomeExternal /\ articles \in ExtArticleLists
    /\ top_n \in 0..MaxTopN
    /\ pc = "call"
    /\ idx = 1
    /\ entity_data = <<>>
    /\ total_articles = 0
    /\ ranked = <<>>
    /\ result = <<>>
    /\ run = 1
    /\ first_entity_data = <<>>
    /\ first_ranked = <<>>
    /\ args = <<>>
    /\ returned = <<>>

\* one call of extract_top_companies
NextExt ==
    \/ ReturnEmpty
    \/ EnterExtract
    \/ ProcessArticle
    \/ ReturnEntities
    \/ RankByDominance
    \/ ReturnTopN

SpecExt == InitExt /\ [][NextExt]_vars

(***************************************************************************)
(* rank_by_dominance as a function of its arguments: any mapping of records *)
(* and any corpus size, as a direct caller may pass them.                   *)
(***************************************************************************)
MaxRankEntities == 2

RankNames == << <<"A","c","m","e">>, <<"T","e","s","l","a">>, <<"G","o","o","g","l","e">>, <<"A","p","p","l","e"," ","I","n","c">> >>

SourceNames == << "s1", "s2", "s3", "s4", "s5", "s6", "s7", "s8", "s9", "s10", "s11", "s12" >>

SourceSet(k) == {SourceNames[i] : i \in 1..k}

\* mentions, article_count, number of sources, involvement scores
Profile(m, a, k, scores) ==
    [mentions |-> m, article_count |-> a, sources |-> SourceSet(k),
     involvement_scores |-> scores]

F0_6 == F(12, -8)

F0_8 == F(16, 16)

RankProfiles ==
    { Profile(5, 5, 3, << F0_6, F0_6, F0_6, F0_6, F0_6 >>),
      Profile(5, 5, 3, << F0_2, F0_4, F0_6, F0_8, F1_0 >>),
      Profile(1, 1, 1, << F1_0 >>),
      Profile(1, 1, 12, << F1_0 >>),
      Profile(2, 2, 2, << F0_2, F0_4 >>),
      Profile(2, 2, 1, << F0_4, F0_4 >>),
      Profile(2, 1, 1, << F0_8 >>),
      Profile(6, 2, 12, << F1_0, F1_0 >>),
      Profile(3, 3, 1, << F0_0, F0_0, F0_0 >>),
      Profile(2, 0, 0, << >>),
      Profile(0, 0, 0, << >>) }

RankTotals == {0, 1, 9, 10, 50, 99, 100, 101, 200, 201, 400, 401}

\* the record of the k-th key with the given profile
RankRecord(k, p) ==
    [name |-> RankNames[k], mentions |-> p.mentions,
     involvement_scores |-> p.involvement_scores, headlines |-> <<>>,
     article_count |-> p.article_count, sources |-> p.sources]

RankInputs ==
    UNION { { [k \in 1..n |-> RankRecord(k, f[k])] : f \in [1..n -> RankProfiles] }
            : n \in 0..MaxRankEntities }

InitRank ==
    /\ entity_data \in RankInputs
    /\ total_articles \in RankTotals
    /\ pc = "rank"
    /\ articles = <<>>
    /\ top_n = 0
    /\ idx = 1
    /\ ranked = <<>>
    /\ result = <<>>
    /\ run = 1
    /\ first_entity_data = <<>>
    /\ first_ranked = <<>>
    /\ args = <<>>
    /\ returned = <<>>
    /\ NoExternals

RankSpec == InitRank /\ [][RankByDominance]_vars

(***************************************************************************)
(* _is_valid_company_name called on its own: entity texts of one or more    *)
(* words, among them the texts of the documented examples.                  *)
(***************************************************************************)
MaxEntityWords == 2

FilterWords ==
    { <<"R","e","u","t","e","r","s">>,
      <<"G","o","v","e","r","n","m","e","n","t">>,
      <<"I","n","d","i","a">>,
      <<"u","s">>,
      <<"1","2","-","3","4">>,
      <<"a","p","p","l","e">>,
      <<"A","p","p","l","e">>,
      <<"I","n","c">>,
      <<"O","p","e","n","A","I">>,
      <<"T","e","s","l","a">>,
      <<"A","I">>,
      <<"U","S">>,
      <<"N","e","w","s">>,
      <<"G","r","o","u","p">>,
      <<"T","a","t","a">>,
      <<"1","2">>,
      <<"N","e","w">>,
      <<"Y","o","r","k">>,
      <<"P","o","s","t">>,
      <<"A">> }

RECURSIVE WordSeqs(_)
WordSeqs(n) ==
    IF n = 0 THEN { <<>> }
    ELSE { Append(ws, w) : ws \in WordSeqs(n - 1), w \in FilterWords }

FilterSamples == { Join(ws) : ws \in UNION { WordSeqs(n) : n \in 1..MaxEntityWords } }

DirectCallInit ==
    /\ articles = <<>>
    /\ top_n = 0
    /\ idx = 1
    /\ entity_data = <<>>
    /\ total_articles = 0
    /\ ranked = <<>>
    /\ result = <<>>
    /\ run = 1
    /\ first_entity_data = <<>>
    /\ first_ranked = <<>>
    /\ returned = <<>>
    /\ NoExternals

InitFilter ==
    /\ DirectCallInit
    /\ pc = "filter"
    /\ args \in [entity : FilterSamples]

\* is_valid = self._is_valid_company_name(entity)
ValidateName ==
    /\ pc = "filter"
    /\ returned' = is_valid_company_name(args.entity)
    /\ pc' = "filtered"
    /\ UNCHANGED << articles, top_n, idx, entity_data, total_articles, ranked, result,
                    run, first_entity_data, first_ranked, args >>
    /\ UNCHANGED envVars

FilterSpec == InitFilter /\ [][ValidateName]_vars

(***************************************************************************)
(* _calculate_involvement_score called on its own.                          *)
(***************************************************************************)
MaxPosition == 6

MaxWords == 6

ScoreEntities ==
    { <<"T","e","s","l","a">>,
      <<"A","c","m","e">>,
      <<"A","c","m","e"," ","C","o","r","p">>,
      <<"G","o","o","g","l","e">>,
      <<"T","e","x","a","s">> }

ScoreHeadlines ==
    { <<"T","e","s","l","a"," ","u","n","v","e","i","l","s"," ","n","e","w"," ","f","a","c","t","o","r","y"," ","i","n"," ","T","e","x","a","s">>,
      <<"A","c","c","o","r","d","i","n","g"," ","t","o"," ","A","c","m","e"," ","s","a","l","e","s"," ","d","r","o","p"," ","f","a","s","t">>,
      <<"A","c","m","e"," ","s","a","i","d"," ","T","e","s","l","a"," ","l","a","u","n","c","h","e","s"," ","c","a","r">>,
      <<"R","e","u","t","e","r","s"," ","r","e","p","o","r","t","s"," ","G","o","o","g","l","e"," ","w","i","n","s"," ","c","a","s","e">>,
      <<"A","c","m","e"," ","b","u","y","s"," ","A","c","m","e"," ","r","i","v","a","l"," ","t","o","d","a","y"," ","o","k">>,
      <<"G","o","o","g","l","e"," ","a","n","d"," ","A","c","m","e"," ","b","o","t","h"," ","s","a","i","d"," ","n","o">>,
      <<"S","a","l","e","s"," ","d","r","o","p"," ","a","c","c","o","r","d","i","n","g"," ","t","o"," ","A","c","m","e"," ","r","e","p","o","r","t">>,
      <<"A","c","m","e"," ","C","o","r","p","'","s"," ","T","e","x","a","s"," ","p","l","a","n","t"," ","e","x","p","a","n","d","s"," ","a","s"," ","G","o","o","g","l","e"," ","f","i","l","e","s"," ","s","u","i","t">>,
      <<"F","o","x"," ","s","a","i","d"," ","a","c","c","o","r","d","i","n","g"," ","t","o"," ","A","c","m","e"," ","a","c","c","o","r","d","i","n","g"," ","t","o"," ","G","o","o","g","l","e">>,
      <<"T","e","s","l","a"," ","w","i","n","s"," ","a","s"," ","A","c","m","e"," ","l","a","u","n","c","h","e","s"," ","c","a","r">> }

InitScore ==
    /\ DirectCallInit
    /\ pc = "score"
    /\ args \in [entity : ScoreEntities, headline : ScoreHeadlines,
                 position : 0..MaxPosition, total_words : 0..MaxWords]

\* involvement = self._calculate_involvement_score(entity, headline, position, total_words)
ScoreInvolvement ==
    /\ pc = "score"
    /\ returned' = calculate_involvement_score(args.entity, args.headline,
                                               args.position, args.total_words)
    /\ pc' = "scored"
    /\ UNCHANGED << articles, top_n, idx, entity_data, total_articles, ranked, result,
                    run, first_entity_data, first_ranked, args >>
    /\ UNCHANGED envVars

ScoreSpec == InitScore /\ [][ScoreInvolvement]_vars

(***************************************************************************)
(* The body of the candidate loop of extract_entities_ner run on its own:   *)
(* one candidate of one headline, met with records and a validator cache    *)
(* that earlier candidates may have left.                                   *)
(***************************************************************************)
MaxCandidatePosition == 6

CandidateEntities ==
    { <<"B","a","n","k"," ","O","f"," ","S","c","o","t","l","a","n","d">>,
      <<"A","c","m","e">>,
      <<"T","a","t","a"," ","M","o","t","o","r","s"," ","G","r","o","u","p">>,
      <<"A","p","p","l","e"," ","I","n","c">>,
      <<"T","e","s","l","a">>,
      <<"R","e","u","t","e","r","s">>,
      <<"b","u","y","s">>,
      <<>> }

CandidateHeadlines ==
    { <<"A","c","m","e"," ","b","u","y","s"," ","A","c","m","e"," ","r","i","v","a","l"," ","t","o","d","a","y"," ","o","k">>,
      <<"T","a","t","a"," ","M","o","t","o","r","s"," ","G","r","o","u","p"," ","w","i","n","s"," ","b","i","g"," ","o","r","d","e","r">>,
      <<"A","p","p","l","e"," ","I","n","c"," ","l","a","u","n","c","h","e","s"," ","n","e","w"," ","p","h","o","n","e"," ","t","o","d","a","y">>,
      <<"A","c","c","o","r","d","i","n","g"," ","t","o"," ","A","c","m","e"," ","s","a","l","e","s"," ","d","r","o","p"," ","f","a","s","t">>,
      <<"A","n","a","l","y","s","t","s"," ","a","t"," ","a","c","m","e"," ","f","e","a","r"," ","w","h","a","t"," ","A","c","m","e"," ","s","a","i","d">>,
      <<"A","c","m","e"," ","s","a","i","d"," ","T","e","s","l","a"," ","l","a","u","n","c","h","e","s"," ","c","a","r">> }

\* the records earlier articles may have left: none, or one of Acme
CandidateRecords ==
    { <<>>,
      << [name |-> <<"A","c","m","e">>, mentions |-> 1, involvement_scores |-> << F0_3 >>,
          headlines |-> << <<"A","c","m","e"," ","w","i","n","s"," ","b","i","g"," ","o","r","d","e","r"," ","t","o","d","a","y">> >>,
          article_count |-> 0, sources |-> {"Wire"}] >> }

\* the caches earlier candidates may have left: empty, a verdict on this
\* candidate's entity and headline, or a verdict on another headline
CandidateCaches(entity, headline) ==
    IF gemini_available /\ Len(entity) > 0 /\ is_valid_company_name(entity)
    THEN { {},
           { [key |-> CacheKey(entity, headline), value |-> TRUE] },
           { [key |-> CacheKey(entity, headline), value |-> FALSE] },
           { [key |-> CacheKey(entity, <<"A","c","m","e"," ","w","i","n","s"," ","b","i","g"," ","o","r","d","e","r"," ","t","o","d","a","y">>), value |-> FALSE] } }
    ELSE { {} }

InitCandidate ==
    /\ articles = <<>>
    /\ top_n = 0
    /\ idx = 1
    /\ total_articles = 0
    /\ ranked = <<>>
    /\ result = <<>>
    /\ run = 1
    /\ first_entity_data = <<>>
    /\ first_ranked = <<>>
    /\ returned = <<>>
    /\ ner = FALSE
    /\ ner_calls = <<>>
    /\ gemini_calls = <<>>
    /\ pc = "candidate"
    /\ gemini_available \in BOOLEAN
    /\ entity_data \in CandidateRecords
    /\ args \in [entity : CandidateEntities, position : 0..MaxCandidatePosition,
                 headline : CandidateHeadlines, source : {"Wire", "Unknown"},
                 response : IF gemini_available THEN GeminiResponses ELSE { NoResponse }]
    /\ gemini_cache \in CandidateCaches(args.entity, args.headline)

\* one pass of the body of  for entity, position in entities
HandleCandidate ==
    /\ pc = "candidate"
    /\ \E out \in { ProcessCandidate(LoopState, args.entity, args.position, args.headline,
                                      args.source, Len(Split(args.headline)),
                                      args.response) } :
          /\ entity_data' = out.data
          /\ gemini_cache' = out.cache
          /\ gemini_calls' = out.calls
          /\ pc' = IF out.raised THEN "raised" ELSE "handled"
    /\ returned' = entity_data
    /\ UNCHANGED << articles, top_n, idx, total_articles, ranked, result, run,
                    first_entity_data, first_ranked, args, ner, gemini_available,
                    ner_calls >>

CandidateSpec == InitCandidate /\ [][HandleCandidate]_vars

(***************************************************************************)
(* extract_top_companies with the pattern tagger and no validator, on       *)
(* titles that reach the indexing of a token, of an entity and of the text  *)
(* after "according to": repeated and trailing blanks, a title of blanks    *)
(* only, a citation of nobody, a missing title and a missing source.  The   *)
(* call runs to its end: every step that is enabled is taken.               *)
(***************************************************************************)
MaxPlainArticles == 2

PlainBlanks ==
    [has_title |-> TRUE, title |-> <<"A","c","m","e"," "," ","b","u","y","s"," "," "," ","r","i","v","a","l"," ","f","i","r","m"," ">>,
     has_source |-> TRUE, source |-> "Wire"]

PlainAllBlank ==
    [has_title |-> TRUE, title |-> <<" "," "," "," "," "," "," "," "," "," ">>,
     has_source |-> TRUE, source |-> "Wire"]

PlainCitesNobody ==
    [has_title |-> TRUE, title |-> <<"S","a","l","e","s"," ","d","r","o","p"," ","f","a","s","t"," ","a","c","c","o","r","d","i","n","g"," ","t","o">>,
     has_source |-> TRUE, source |-> "Daily"]

PlainCites ==
    [has_title |-> TRUE, title |-> <<"A","c","c","o","r","d","i","n","g"," ","t","o"," ","A","c","m","e"," ","s","a","l","e","s"," ","d","r","o","p"," ","f","a","s","t">>,
     has_source |-> TRUE, source |-> "Daily"]

PlainLower ==
    [has_title |-> TRUE, title |-> <<"a","c","m","e"," ","b","u","y","s"," ","4","2"," ","r","i","v","a","l","s"," ","-","-"," ","o","k">>,
     has_source |-> FALSE, source |-> ""]

PlainTwice ==
    [has_title |-> TRUE, title |-> <<"A","c","m","e"," ","b","u","y","s"," ","A","c","m","e"," ","r","i","v","a","l"," ","t","o","d","a","y"," ","o","k">>,
     has_source |-> FALSE, source |-> ""]

PlainNothing == [has_title |-> FALSE, title |-> <<>>, has_source |-> FALSE, source |-> ""]

PlainPool ==
    { PlainBlanks, PlainAllBlank, PlainCitesNobody, PlainCites, PlainLower, PlainTwice,
      PlainNothing }

InitPlain ==
    /\ articles \in UNION { [1..k -> PlainPool] : k \in 0..MaxPlainArticles }
    /\ top_n \in 0..MaxTopN
    /\ pc = "call"
    /\ idx = 1
    /\ entity_data = <<>>
    /\ total_articles = 0
    /\ ranked = <<>>
    /\ result = <<>>
    /\ run = 1
    /\ first_entity_data = <<>>
    /\ first_ranked = <<>>
    /\ args = <<>>
    /\ returned = <<>>
    /\ NoExternals

\* a step of NextExt is enabled exactly while the call is under way
Running == pc \in {"call", "loop", "rank", "slice"}

\* weak fairness of NextExt, WF_vars(NextExt), written out with Running as
\* its enabling condition: the interpreter takes the next step of the call
PlainSpec ==
    InitPlain /\ [][NextExt]_vars /\ ([]<>(~Running) \/ []<><<NextExt>>_vars)

(***************************************************************************)
(* _extract_with_patterns called on its own, on the headlines of up to      *)
(* MaxPatternWords words over a capitalised word, a capitalised suffix, a   *)
(* lowercase suffix and a lowercase word.                                   *)
(***************************************************************************)
MaxPatternWords == 5

PatternWords == { <<"A","c","m","e">>, <<"L","a","b","s">>, <<"i","n","c">>, <<"b","u","y","s">> }

PatternTexts ==
    { Join(ws) : ws \in UNION { [1..k -> PatternWords] : k \in 0..MaxPatternWords } }

InitPatterns ==
    /\ articles = <<>>
    /\ top_n = 0
    /\ idx = 1
    /\ entity_data = <<>>
    /\ total_articles = 0
    /\ ranked = <<>>
    /\ result = <<>>
    /\ run = 1
    /\ first_entity_data = <<>>
    /\ first_ranked = <<>>
    /\ returned = <<>>
    /\ NoExternals
    /\ pc = "tag"
    /\ args \in [text : PatternTexts]

\* entities = self._extract_with_patterns(text)
ExtractPatterns ==
    /\ pc = "tag"
    /\ returned' = extract_with_patterns(args.text)
    /\ pc' = "tagged"
    /\ UNCHANGED << articles, top_n, idx, entity_data, total_articles, ranked, result, run,
                    first_entity_data, first_ranked, args >>
    /\ UNCHANGED envVars

PatternSpec == InitPatterns /\ [][ExtractPatterns]_vars

(***************************************************************************)
(* extract_entities_ner run on the whole article list, and then on the      *)
(* parts of a split of the list, each part by a run of its own with its own *)
(* defaultdict; the runs of the parts take their steps in any order.  No    *)
(* external tagger or validator is in use.                                  *)
(***************************************************************************)
MaxSplitArticles == 3

\* the runs that share the list
Parts == { "a", "b" }

SplitPool == { ExtAcme, ExtSaid, ExtShort }

\* the state of the run of one part: its records, the last index of the
\* list it has looked at, and whether it has returned
PartStart == [data |-> <<>>, seen |-> 0, done |-> FALSE]

InitSplit ==
    /\ articles \in UNION { [1..k -> SplitPool] : k \in 1..MaxSplitArticles }
    /\ top_n = 0
    /\ pc = "call"
    /\ idx = 1
    /\ entity_data = <<>>
    /\ total_articles = 0
    /\ ranked = <<>>
    /\ result = <<>>
    /\ run = 1
    /\ first_entity_data = <<>>
    /\ first_ranked = <<>>
    /\ NoExternals
    /\ args \in [owner : [1..Len(articles) -> Parts]]
    /\ returned = [p \in Parts |-> PartStart]

\* the articles of part p the run of p has not reached yet
PartRest(p) == { i \in (returned[p].seen + 1)..Len(articles) : args.owner[i] = p }

\* one iteration of the loop of the run of part p, or its article_count loop
\* and return when its articles are used up
PartStep(p) ==
    /\ pc = "rank"
    /\ ~returned[p].done
    /\ IF PartRest(p) # {}
       THEN LET i == CHOOSE k \in PartRest(p) : \A j \in PartRest(p) : k <= j
            IN  \E out \in ProcessOne([LoopState EXCEPT !.data = returned[p].data],
                                       articles[i]) :
                    returned' = [returned EXCEPT ![p].data = out.data, ![p].seen = i]
       ELSE returned' = [returned EXCEPT ![p].data = SetArticleCounts(@), ![p].done = TRUE]
    /\ UNCHANGED << articles, top_n, pc, idx, entity_data, total_articles, ranked, result,
                    run, first_entity_data, first_ranked, args >>
    /\ UNCHANGED envVars

SplitNext ==
    \/ EnterExtract
    \/ ProcessArticle
    \/ ReturnEntities
    \/ \E p \in Parts : PartStep(p)

SplitSpec == InitSplit /\ [][SplitNext]_vars

(***************************************************************************)
(* enhance_articles_async of article_scraper.py.  One coroutine sem_scrape  *)
(* is made for every target article and all of them are handed to           *)
(* asyncio.gather.  A coroutine passes  async with semaphore  when a permit *)
(* is free, in the order the coroutines were made, and calls                *)
(* scrape_article_content_async; the scrape returns at any later time, in   *)
(* any order with the scrapes of the other coroutines (it catches every     *)
(* Exception and returns None, and its request carries a timeout).          *)
(*                                                                          *)
(* The coroutines differ in nothing but their target, so the state of the   *)
(* call is kept as the record  returned : the permits left in the           *)
(* semaphore, the counter completed, the number of coroutines that passed   *)
(* the semaphore (targets 1..started, in the order they were made), and     *)
(* for one target, args.watch, where its coroutine stands and how often     *)
(* the scrape was called for it.  args.watch ranges over all the targets.   *)
(* What a scrape returns is written into the article and read by no step.   *)
(***************************************************************************)
MaxTargets == 21

\* semaphore = asyncio.Semaphore(20)
SemaphorePermits == 20

\* the numbers of target articles: none, few, as many as permits, and more
TargetCounts == { 0, 1, 2, SemaphorePermits, MaxTargets }

InitScrape ==
    /\ articles = <<>>
    /\ top_n = 0
    /\ pc = "call"
    /\ idx = 1
    /\ entity_data = <<>>
    /\ total_articles = 0
    /\ ranked = <<>>
    /\ result = <<>>
    /\ run = 1
    /\ first_entity_data = <<>>
    /\ first_ranked = <<>>
    /\ NoExternals
    /\ args \in { a \in [total : TargetCounts, watch : 0..MaxTargets] :
                    IF a.total = 0 THEN a.watch = 0 ELSE a.watch \in 1..a.total }
    /\ returned = <<>>

scraperFrame ==
    <<articles, top_n, idx, entity_data, total_articles, ranked, result, run,
      first_entity_data, first_ranked, envVars, args>>

\* the number of scrapes that are running
InFlight == returned.started - returned.completed

\* the body up to the gather: the counter, the semaphore and one coroutine per target
enhance_articles_async ==
    /\ pc = "call"
    /\ pc' = "gather"
    /\ returned' = [semaphore |-> SemaphorePermits,
                    completed |-> 0,
                    started   |-> 0,
                    task      |-> "created",
                    scrapes   |-> 0]
    /\ UNCHANGED scraperFrame

\* sem_scrape without the semaphore
sem_scrape_Unguarded ==
    /\ pc = "gather"
    /\ returned.started < args.total
    /\ returned' =
           IF returned.started + 1 = args.watch
           THEN [returned EXCEPT !.semaphore = @ - 1, !.started = @ + 1,
                                 !.task = "scraping", !.scrapes = @ + 1]
           ELSE [returned EXCEPT !.semaphore = @ - 1, !.started = @ + 1]
    /\ UNCHANGED <<pc, scraperFrame>>

\* the next coroutine in line takes a permit and calls the scrape
sem_scrape ==
    /\ pc = "gather"
    /\ returned.started < args.total
    /\ returned.semaphore > 0
    /\ returned' =
           IF returned.started + 1 = args.watch
           THEN [returned EXCEPT !.semaphore = @ - 1, !.started = @ + 1,
                                 !.task = "scraping", !.scrapes = @ + 1]
           ELSE [returned EXCEPT !.semaphore = @ - 1, !.started = @ + 1]
    /\ UNCHANGED <<pc, scraperFrame>>

\* a running scrape returns: completed += 1, the callback, the permit back
ScrapeReturns(watched) ==
    /\ pc = "gather"
    /\ IF watched
       THEN /\ returned.task = "scraping"
            /\ returned' = [returned EXCEPT !.semaphore = @ + 1,
                                            !.completed = @ + 1,
                                            !.task = "returned"]
       ELSE /\ InFlight > (IF returned.task = "scraping" THEN 1 ELSE 0)
            /\ returned' = [returned EXCEPT !.semaphore = @ + 1,
                                            !.completed = @ + 1]
    /\ UNCHANGED <<pc, scraperFrame>>

\* every coroutine has returned: gather returns and the results are written back
GatherReturns ==
    /\ pc = "gather"
    /\ returned.completed = args.total
    /\ pc' = "gathered"
    /\ UNCHANGED <<returned, scraperFrame>>

ScrapeNext ==
    \/ enhance_articles_async
    \/ sem_scrape
    \/ \E watched \in BOOLEAN : ScrapeReturns(watched)
    \/ GatherReturns

\* the event loop runs a coroutine that can run, and every scrape returns
ScrapeSpec == InitScrape /\ [][ScrapeNext]_vars /\ WF_vars(ScrapeNext)

(***************************************************************************)
(* Properties of the aggregation and of the ranking it feeds.               *)
(***************************************************************************)
\* the records rank_by_dominance was last called with are those in entity_data
RankedIsCurrent == pc \in {"slice", "done"} /\ (articles # <<>> \/ Len(entity_data) > 0)

\* the place of a key in the dict's iteration order
PosIn(data, name) == CHOOSE i \in 1..Len(data) : data[i].name = name

\* C1: after every processed prefix of the article list and on return, each
\* entity record has mentions = len(involvement_scores) = len(headlines);
\* once extract_entities_ner has returned, article_count = len(headlines) too.
\* This holds whatever the external tagger and validator answer.
C1_AggregateLengths ==
    /\ \A i \in 1..Len(entity_data) :
          /\ entity_data[i].mentions = Len(entity_data[i].involvement_scores)
          /\ entity_data[i].mentions = Len(entity_data[i].headlines)
    /\ pc \in {"rank", "slice", "done"} =>
          \A i \in 1..Len(entity_data) :
              entity_data[i].article_count = Len(entity_data[i].headlines)

\* a proper prefix has been processed with the external tagger and validator in
\* use, a validator call failed, and some entity was counted twice
C1_Witness ==
    /\ pc = "loop"
    /\ 1 < idx
    /\ idx <= Len(articles)
    /\ ner
    /\ \E k \in 1..Len(gemini_calls) : gemini_calls[k].raised
    /\ \E i \in 1..Len(entity_data) : entity_data[i].mentions >= 2

\* C2: every entry rank_by_dominance produces from the records of
\* extract_entities_ner, with total_articles = len(articles), has a
\* dominance_score between 0 and 100 (in hundredths: 0..10000).
C2_DominanceInRange ==
    \A i \in 1..Len(ranked) :
        /\ 0 <= ranked[i].dominance_score
        /\ ranked[i].dominance_score <= 10000

\* an entity whose coverage term is at its cap has been ranked
C2_Witness ==
    /\ pc = "slice"
    /\ total_articles = Len(articles)
    /\ \E i \in 1..Len(ranked) :
          /\ 100 * ranked[i].articles > 30 * total_articles
          /\ ranked[i].dominance_score > 5000

\* C3: with N surviving entities the ranked list carries the ranks 1, 2, ..., N
\* in list order, and for top_n >= 0 extract_top_companies returns its first
\* min(top_n, N) entries, whose ranks are 1..min(top_n, N).
C3_DenseRanks ==
    LET N == Cardinality({i \in 1..Len(entity_data) :
                             Survives(entity_data[i], total_articles)})
    IN  /\ \A i \in 1..Len(ranked) : ranked[i].rank = i
        /\ RankedIsCurrent => Len(ranked) = N
        /\ (pc = "done" /\ articles # <<>>) =>
              /\ Len(result) = Min(top_n, N)
              /\ \A i \in 1..Len(result) : result[i] = ranked[i] /\ result[i].rank = i

\* the list was cut: more entities were ranked than top_n asks for
C3_Witness ==
    /\ pc = "done"
    /\ Len(ranked) >= 3
    /\ top_n = 2
    /\ Len(result) = 2

\* C4: dominance_score does not increase along the ranked list, and entries of
\* equal dominance_score stand in the iteration order of the input records.
C4_SortedStable ==
    RankedIsCurrent =>
        \A i \in 1..Len(ranked) : \A j \in 1..Len(ranked) :
            i < j =>
                /\ ranked[i].dominance_score >= ranked[j].dominance_score
                /\ ranked[i].dominance_score = ranked[j].dominance_score =>
                       PosIn(entity_data, ranked[i].name) < PosIn(entity_data, ranked[j].name)

\* the list holds a tie and a strict descent, and the sort moved an entry forward
C4_Witness ==
    /\ pc = "slice"
    /\ \E i \in 1..Len(ranked) : \E j \in 1..Len(ranked) :
          i < j /\ ranked[i].dominance_score = ranked[j].dominance_score
    /\ \E i \in 1..Len(ranked) : \E j \in 1..Len(ranked) :
          /\ i < j
          /\ ranked[i].dominance_score > ranked[j].dominance_score
          /\ PosIn(entity_data, ranked[i].name) > PosIn(entity_data, ranked[j].name)

\* C5: with no external tagger or validator, a second run over the same
\* article list yields the same entity records and the same ranked list as the
\* first, and no step of a run changes the article list.
C5_Idempotent ==
    /\ [](run = 2 =>
            /\ pc \in {"rank", "slice", "done"} => entity_data = first_entity_data
            /\ pc \in {"slice", "done"} => ranked = first_ranked)
    /\ [][articles' = articles]_vars

\* the second run has finished with a ranking of several entities
C5_Witness ==
    /\ run = 2
    /\ pc = "done"
    /\ Len(ranked) >= 2
    /\ ranked = first_ranked

(***************************************************************************)
(* Properties of the validity filter and of the involvement scorer.         *)
(***************************************************************************)
C6_Rejected ==
    { <<"R","e","u","t","e","r","s">>,
      <<"G","o","v","e","r","n","m","e","n","t">>,
      <<"I","n","d","i","a">>,
      <<"u","s">>,
      <<"1","2","-","3","4">>,
      <<"a","p","p","l","e">> }

C6_Accepted ==
    { <<"A","p","p","l","e"," ","I","n","c">>,
      <<"O","p","e","n","A","I">>,
      <<"T","e","s","l","a">> }

\* C6: _is_valid_company_name accepts a text exactly when none of its seven
\* reject rules fires; it rejects "Reuters", "Government", "India", "us",
\* "12-34" and "apple" and accepts "Apple Inc", "OpenAI" and "Tesla".
C6_FilterExamples ==
    pc = "filtered" =>
        /\ returned = ~( \/ Rule1Publisher(args.entity)
                         \/ Rule2Generic(args.entity)
                         \/ Rule3Location(args.entity)
                         \/ Rule4NotCapitalized(args.entity)
                         \/ Rule5TooShort(args.entity)
                         \/ Rule6ShortAcronym(args.entity)
                         \/ Rule7Numeric(args.entity) )
        /\ args.entity \in C6_Rejected => returned = FALSE
        /\ args.entity \in C6_Accepted => returned = TRUE
        /\ returned = TRUE => FirstRejectRule(args.entity) = 0

\* the two-word example has been accepted
C6_Witness ==
    /\ pc = "filtered"
    /\ args.entity = <<"A","p","p","l","e"," ","I","n","c">>
    /\ returned = TRUE

\* C7: for every entity, headline, position >= 0 and total_words >= 0 the
\* score returned lies in [0.0, 1.0], also when the attribution penalty
\* applies and when all four factors apply.
C7_ScoreInUnitInterval ==
    pc = "scored" => FLe(F0_0, returned) /\ FLe(returned, F1_0)

\* the penalty drove the sum below zero and the result is 0.0
C7_Witness ==
    /\ pc = "scored"
    /\ AttributionFactor(Lower(args.entity), Lower(args.headline)) = FNeg(F0_2)
    /\ FLt(RawScore(args.entity, args.headline, args.position, args.total_words), F0_0)
    /\ returned = F0_0

\* the position factor as the claim states it, in twentieths
C8_P(position, total_words) ==
    IF 10 * position <= 4 * Max(total_words, 1) THEN 6
    ELSE IF 10 * position <= 6 * Max(total_words, 1) THEN 3
    ELSE 0

\* the standalone factor as the claim states it, in twentieths
C8_M(entity, headline) == IF Count(Lower(headline), Lower(entity)) = 1 THEN 2 ELSE 0

C8_Example ==
    [entity |-> <<"T","e","s","l","a">>,
     headline |-> <<"T","e","s","l","a"," ","u","n","v","e","i","l","s"," ","n","e","w"," ","f","a","c","t","o","r","y"," ","i","n"," ","T","e","x","a","s">>,
     position |-> 0, total_words |-> 6]

\* C8: the score is max(0, min(1, P + S + A + M)) with P = 0.3, 0.15 or 0 by the
\* position ratio (<= 0.4, in (0.4, 0.6], above), S the subject factor (0 or
\* 0.4), A the attribution factor (+0.2, -0.2 or 0) and M = 0.1 iff the
\* lowercased entity occurs exactly once; the sum is the value of the double
\* returned up to the rounding of the additions (at most 2^-53), and the
\* example gives 0.3 + 0.4 + 0 + 0.1 = 0.8.
C8_ScoreFormula ==
    pc = "scored" =>
        LET S == SubjectFactor(Lower(args.entity), Lower(args.headline)).n
            A == AttributionFactor(Lower(args.entity), Lower(args.headline)).n
            P == C8_P(args.position, args.total_words)
            M == C8_M(args.entity, args.headline)
        IN  /\ S \in {0, 8}
            /\ A \in {4, -4, 0}
            /\ returned.n = Max(0, Min(20, P + S + A + M))
            /\ returned.e \in -40..40
            /\ args = C8_Example =>
                  /\ P = 6 /\ S = 8 /\ A = 0 /\ M = 2
                  /\ returned.n = 16
                  /\ returned = FAdd(FAdd(F0_3, F0_4), F0_1)

\* the example of the claim has been scored
C8_Witness ==
    /\ pc = "scored"
    /\ args = C8_Example
    /\ returned.n = 16

(***************************************************************************)
(* Properties of rank_by_dominance on any records.                          *)
(***************************************************************************)
\* the input record of a ranked entry
RecordOf(name) == entity_data[PosIn(entity_data, name)]

\* the dominance of the claim, in hundredths: the four terms over the common
\* denominator 3 * T * L * A
C9_Dominance(d, total) ==
    LET T == Max(total, 1)
        L == Max(Len(d.involvement_scores), 1)
        A == Max(d.article_count, 1)
        k == Cardinality(d.sources)
        coverage == IF 100 * d.article_count <= 30 * T
                    THEN 100 * d.article_count * 3 * L * A
                    ELSE 30 * 3 * T * L * A
        involvement == 2 * SumNominal(d.involvement_scores) * 3 * T * A
        diversity == IF k <= 10 THEN 2 * k * 3 * T * L * A ELSE 20 * 3 * T * L * A
        consistency == IF d.mentions <= 3 * A
                       THEN 10 * d.mentions * T * L
                       ELSE 10 * 3 * T * L * A
    IN  RoundHalfEven(100 * (coverage + involvement + diversity + consistency),
                      3 * T * L * A)

\* mentions = 5, article_count = 5, average involvement 0.6 and 3 sources
C9_IsExample(d) ==
    /\ d.mentions = 5
    /\ d.article_count = 5
    /\ Cardinality(d.sources) = 3
    /\ Len(d.involvement_scores) = 5
    /\ SumNominal(d.involvement_scores) = 60

\* C9: every surviving entity gets dominance = min(coverage_ratio * 100, 30)
\* + average involvement * 40 + min(sources / 10, 1) * 20
\* + min((mentions / max(article_count, 1)) / 3, 1) * 10, rounded to two
\* decimals; with 100 articles, 5 mentions in 5 articles, average involvement
\* 0.6 and 3 sources this is 5 + 24 + 6 + 3.33 = 38.33.
C9_DominanceFormula ==
    pc = "slice" =>
        \A i \in 1..Len(ranked) :
            LET d == RecordOf(ranked[i].name)
            IN  /\ ranked[i].dominance_score = C9_Dominance(d, total_articles)
                /\ (total_articles = 100 /\ C9_IsExample(d)) =>
                      /\ CoverageNum(d, total_articles) = 5 * total_articles
                      /\ InvolvementNum(d) = 24 * Len(d.involvement_scores)
                      /\ DiversityPoints(d) = 6
                      /\ RoundHalfEven(100 * ConsistencyNum(d), 3 * d.article_count) = 333
                      /\ ranked[i].dominance_score = 3833

\* the example of the claim has been ranked with a score of 38.33
C9_Witness ==
    /\ pc = "slice"
    /\ total_articles = 100
    /\ \E i \in 1..Len(ranked) :
          /\ C9_IsExample(RecordOf(ranked[i].name))
          /\ ranked[i].dominance_score = 3833

\* C10: with total_articles >= 10 no entity with fewer than 2 mentions is
\* output, whatever its involvement, coverage and sources; an entity with one
\* mention is output only when total_articles < 10.
C10_MentionFloor ==
    pc = "slice" =>
        /\ \A i \in 1..Len(ranked) :
              /\ total_articles >= 10 => ranked[i].mentions >= 2
              /\ ranked[i].mentions = 1 => total_articles < 10
        /\ \A k \in 1..Len(entity_data) :
              (total_articles >= 10 /\ entity_data[k].mentions < 2) =>
                  ~\E i \in 1..Len(ranked) : ranked[i].name = entity_data[k].name

\* in a corpus of 50 an entity with one mention, full involvement and twelve
\* sources was left out while another entity was ranked
C10_Witness ==
    /\ pc = "slice"
    /\ total_articles = 50
    /\ Len(ranked) >= 1
    /\ \E k \in 1..Len(entity_data) :
          /\ entity_data[k].mentions = 1
          /\ Cardinality(entity_data[k].sources) = 12
          /\ entity_data[k].involvement_scores = << F1_0 >>
          /\ ~\E i \in 1..Len(ranked) : ranked[i].name = entity_data[k].name


(***************************************************************************)
(* Properties of the control flow of extract_top_companies and of the loop  *)
(* of extract_entities_ner.                                                 *)
(***************************************************************************)
\* C11: with an empty article list extract_top_companies returns [] in one
\* step: the call never reaches the construction of the extractor, the loop,
\* the ranking or the slice, no tagger or validator call is made, and no
\* record or ranking exists.
C11_EmptyReturnsAtOnce ==
    /\ [](articles = <<>> =>
             /\ pc \in {"call", "done"}
             /\ ner_calls = <<>> /\ gemini_calls = <<>> /\ gemini_cache = {}
             /\ entity_data = <<>> /\ ranked = <<>> /\ result = <<>>)
    /\ [][(pc = "call" /\ articles = <<>>) =>
             /\ pc' = "done"
             /\ result' = <<>>
             /\ UNCHANGED << articles, top_n, idx, entity_data, total_articles, ranked,
                             ner, gemini_available, gemini_cache, gemini_calls,
                             ner_calls >>]_vars

\* the call with an empty list has returned, both external capabilities present
C11_Witness ==
    /\ pc = "done"
    /\ articles = <<>>
    /\ result = <<>>
    /\ ner
    /\ gemini_available

\* an article without a title, with an empty title or with a title of fewer
\* than 10 characters
C12_Malformed(article) ==
    \/ ~article.has_title
    \/ article.title = <<>>
    \/ Len(article.title) < 10

\* C12: the iteration over an article whose title is absent, empty or shorter
\* than 10 characters calls neither tagger nor validator, leaves the records,
\* the cache and the call logs as they were, raises nothing, and moves on to
\* the next article; an article with a title of 10 characters or more calls
\* the configured tagger.
C12_SkipsMalformed ==
    [][(pc = "loop" /\ idx <= Len(articles)) =>
          IF C12_Malformed(articles[idx])
          THEN /\ entity_data' = entity_data
               /\ ner_calls' = ner_calls
               /\ gemini_calls' = gemini_calls
               /\ gemini_cache' = gemini_cache
               /\ pc' = "loop"
               /\ idx' = idx + 1
          ELSE ner => /\ Len(ner_calls') = Len(ner_calls) + 1
                      /\ ner_calls'[Len(ner_calls')].text = articles[idx].title]_vars

\* a short title was skipped and the article after it was tagged and recorded
C12_Witness ==
    /\ pc = "loop"
    /\ idx = 3
    /\ C12_Malformed(articles[1])
    /\ ~C12_Malformed(articles[2])
    /\ ner
    /\ Len(ner_calls) = 1
    /\ ner_calls[1].text = articles[2].title
    /\ Len(entity_data) >= 1


\* the step is an iteration in which self.ner was called and raised
C13_TaggerRaised ==
    /\ pc = "loop"
    /\ idx <= Len(articles)
    /\ Len(ner_calls') = Len(ner_calls) + 1
    /\ ner_calls'[Len(ner_calls')].raised

\* C13: when the external tagger raises on a headline the iteration goes on
\* with exactly the candidates of _extract_with_patterns: what it leaves is
\* what the loop body leaves for those candidates, nothing is raised out of
\* extract_entities_ner, and the loop moves on to the next article.
C13_TaggerFailureFallsBack ==
    [][C13_TaggerRaised =>
          LET headline == articles[idx].title
              before == [LoopState EXCEPT !.ner_calls = ner_calls']
              outs == ProcessCandidates({ before }, extract_with_patterns(headline), 1,
                                        headline, GetSource(articles[idx]),
                                        Len(Split(headline)))
          IN  /\ \E out \in outs :
                    /\ ~out.raised
                    /\ entity_data' = out.data
                    /\ gemini_cache' = out.cache
                    /\ gemini_calls' = out.calls
              /\ pc' = "loop"
              /\ idx' = idx + 1]_vars

\* the tagger raised on the first article, whose pattern candidate was
\* recorded, and the second article was processed and recorded too
C13_Witness ==
    /\ pc = "loop"
    /\ idx = 3
    /\ Len(ner_calls) = 2
    /\ ner_calls[1].raised
    /\ \E i \in 1..Len(entity_data) : entity_data[i].headlines = << articles[1].title >>
    /\ \E i \in 1..Len(entity_data) : articles[2].title = entity_data[i].headlines[1]


\* the candidate of args passes the rule filter
RuleAccepted == Len(args.entity) > 0 /\ is_valid_company_name(args.entity)

\* the aggregate after the candidate of args is taken as valid: counted when
\* its score reaches the threshold, untouched otherwise
TakenAsValid ==
    LET involvement == calculate_involvement_score(args.entity, args.headline, args.position,
                                                   Len(Split(args.headline)))
    IN  IF AboveThreshold(involvement)
        THEN Record(entity_data, args.entity, involvement, args.headline, args.source)
        ELSE entity_data

\* C14: when the call of the external validator raises for a rule-accepted
\* candidate the verdict is accept, the candidate is scored and counted as a
\* validated one would be, and the loop goes on without an exception; when
\* the validator is unavailable every rule-accepted candidate is accepted
\* without a call.
C14_ValidatorFailsOpen ==
    /\ [][(pc = "candidate" /\ CallsGemini(LoopState, args.entity, args.headline)
                            /\ args.response.raises)
            => /\ pc' = "handled"
               /\ entity_data' = TakenAsValid
               /\ gemini_calls' = << [entity |-> args.entity, headline |-> args.headline,
                                      raised |-> TRUE, valid |-> TRUE] >>]_vars
    /\ [][(pc = "candidate" /\ ~gemini_available /\ RuleAccepted)
            => /\ pc' = "handled"
               /\ entity_data' = TakenAsValid
               /\ gemini_calls' = <<>>
               /\ gemini_cache' = {}]_vars

\* a raised call after which the candidate was counted
C14_Witness ==
    /\ pc = "handled"
    /\ gemini_available
    /\ Len(gemini_calls) = 1
    /\ gemini_calls[1].raised
    /\ gemini_calls[1].valid
    /\ Len(entity_data) = Len(returned) + 1
    /\ entity_data[Len(entity_data)].mentions = 1


\* C15: within one run the external validator is called at most once for
\* each pair of entity and headline, whatever the first call did (accept,
\* reject, or a failure taken as accept); a later occurrence of the pair is
\* answered from the cache.
C15_OneCallPerPair ==
    \A i, j \in 1..Len(gemini_calls) :
        (i < j) => ~(/\ gemini_calls[i].entity = gemini_calls[j].entity
                     /\ gemini_calls[i].headline = gemini_calls[j].headline)


\* C16: with the pattern tagger and no validator, extract_top_companies ends
\* and returns a list without raising, whatever titles and sources the
\* articles hold or lack: no token, entity or text after "according to" is
\* indexed out of range.
C16_PlainCallReturns == [](pc # "raised") /\ <>(pc = "done")

\* a call that met repeated blanks and a citation has returned entities
C16_Witness ==
    /\ pc = "done"
    /\ ~ner
    /\ ~gemini_available
    /\ Len(articles) = 2
    /\ articles[1] = PlainBlanks
    /\ articles[2] = PlainCitesNobody
    /\ Len(result) >= 1


\* the tokens of the headline handed to the pattern tagger
C17_Words == Split(args.text)

\* the number of tokens of the k-th returned span
C17_SpanLen(k) == Len(Split(returned[k][1]))

C18_Extends(word) == IsUpperChar(word[1]) \/ Lower(word) \in company_suffixes

\* the one-based indices of the tokens of the k-th span
C18_Tokens(k) == (returned[k][2] + 1)..(returned[k][2] + C17_SpanLen(k))

C19_Validated ==
    /\ RuleAccepted
    /\ validate_with_gemini(args.entity, args.headline, gemini_cache, args.response).valid

\* the involvement score of the candidate of args
C19_Score ==
    calculate_involvement_score(args.entity, args.headline, args.position,
                                Len(Split(args.headline)))

\* the record of the entity of args in the aggregate, the default one when it has none
C19_Before ==
    IF HasKey(entity_data, args.entity)
    THEN entity_data[CHOOSE i \in 1..Len(entity_data) : entity_data[i].name = args.entity]
    ELSE DefaultRecord(args.entity)

C20_Headline == GetTitle(articles[idx])

\* the places of the candidate list of the pattern tagger that hold entity e
C20_Places(e) ==
    { k \in 1..Len(extract_with_patterns(C20_Headline)) :
        extract_with_patterns(C20_Headline)[k][1] = e }

\* the score of the candidate at place k
C20_ScoreAt(k) ==
    LET c == extract_with_patterns(C20_Headline)[k]
    IN  calculate_involvement_score(c[1], C20_Headline, c[2], Len(Split(C20_Headline)))

\* e is tagged at exactly two positions of the headline, passes the rule
\* filter, and both occurrences score >= 0.2
C20_TaggedTwice(e) ==
    /\ Cardinality(C20_Places(e)) = 2
    /\ is_valid_company_name(e)
    /\ \A k \in C20_Places(e) : FLe(F0_2, C20_ScoreAt(k))

\* the record of e in data, the default one when there is none
C20_RecordIn(data, e) ==
    IF HasKey(data, e)
    THEN data[CHOOSE i \in 1..Len(data) : data[i].name = e]
    ELSE DefaultRecord(e)

\* C20: an entity tagged at two positions of one headline, both occurrences
\* scoring >= 0.2, gets from that single article 2 more mentions, the two
\* scores in the order of the positions, two copies of the headline, and
\* the source of the article once; article_count is then set to the number
\* of headlines kept, so the article counts twice.
C20_TwiceInOneHeadline ==
    /\ [][(/\ pc = "loop" /\ idx <= Len(articles) /\ ~ner /\ ~gemini_available
            /\ ~Skipped(C20_Headline))
           => \A e \in { extract_with_patterns(C20_Headline)[k][1] :
                           k \in 1..Len(extract_with_patterns(C20_Headline)) } :
                C20_TaggedTwice(e) =>
                  LET old == C20_RecordIn(entity_data, e)
                      new == C20_RecordIn(entity_data', e)
                      k1 == CHOOSE k \in C20_Places(e) : \A j \in C20_Places(e) : k <= j
                      k2 == CHOOSE k \in C20_Places(e) : \A j \in C20_Places(e) : k >= j
                  IN  /\ HasKey(entity_data', e)
                      /\ new.mentions = old.mentions + 2
                      /\ new.involvement_scores
                            = old.involvement_scores \o << C20_ScoreAt(k1), C20_ScoreAt(k2) >>
                      /\ new.headlines = old.headlines \o << C20_Headline, C20_Headline >>
                      /\ new.sources = old.sources \cup { GetSource(articles[idx]) }]_vars
    /\ [](pc \in {"rank", "slice"}
            => \A i \in 1..Len(entity_data) :
                 entity_data[i].article_count = Len(entity_data[i].headlines))

\* one article alone gave its entity two mentions and an article count of 2
C20_Witness ==
    /\ pc = "rank"
    /\ Len(articles) = 1
    /\ total_articles = 1
    /\ Len(entity_data) = 1
    /\ entity_data[1].mentions = 2
    /\ Len(entity_data[1].involvement_scores) = 2
    /\ entity_data[1].headlines = << articles[1].title, articles[1].title >>
    /\ entity_data[1].article_count = 2
    /\ Cardinality(entity_data[1].sources) = 1


(***************************************************************************)
(* Properties of the floors of rank_by_dominance and of the factors of the  *)
(* involvement score.                                                       *)
(***************************************************************************)
\* the coverage floor as stated, in thousandths: 0.005 above 100 articles,
\* 0.003 up to and including 100
C21_Floor(total) == IF total > 100 THEN 5 ELSE 3

\* the names of the ranking
C21_RankedNames == { ranked[i].name : i \in 1..Len(ranked) }

\* C21: rank_by_dominance rejects an entity that passed the mention floor
\* if and only if article_count / max(total_articles, 1) is below the
\* coverage floor, 0.005 when total_articles > 100 and 0.003 otherwise, the
\* corpus of exactly 100 articles included.
C21_CoverageFloor ==
    pc = "slice" =>
        \A i \in 1..Len(entity_data) :
            PassesMentionFloor(entity_data[i], total_articles) =>
                ((entity_data[i].name \notin C21_RankedNames)
                   <=> (1000 * entity_data[i].article_count
                          < C21_Floor(total_articles) * Max(total_articles, 1)))

\* at 201 articles one article is below 0.005 and above 0.003, and is rejected;
\* the other entity is kept
C21_Witness ==
    /\ pc = "slice"
    /\ total_articles = 201
    /\ Len(entity_data) = 2
    /\ entity_data[1].mentions = 2
    /\ entity_data[1].article_count = 1
    /\ entity_data[2].article_count = 2
    /\ C21_RankedNames = { entity_data[2].name }


\* the part of the headline after the first "according to"
C22_AfterPhrase(headline_lower) ==
    SubSeq(headline_lower, Find(headline_lower, AccordingTo, 1) + Len(AccordingTo),
           Len(headline_lower))

\* the attribution factor as stated, in twentieths
C22_Factor(entity, headline) ==
    LET entity_lower == Lower(entity)
        headline_lower == Lower(headline)
    IN  IF \/ Contains(headline_lower, entity_lower \o PossessiveMark)
           \/ Contains(headline_lower, entity_lower \o SaidMark)
        THEN 4
        ELSE IF /\ Contains(headline_lower, AccordingTo)
                /\ Contains(C22_AfterPhrase(headline_lower), entity_lower)
             THEN -4
             ELSE 0

\* C22: the attribution factor is +0.2 when the lowercased headline holds
\* "<entity>'s" or "<entity> said"; otherwise -0.2 whenever the headline
\* holds "according to" and the lowercased entity occurs anywhere after that
\* phrase, also when the phrase occurs more than once; otherwise 0.  The
\* score returned is the clamped sum made with that factor.
C22_AttributionAsStated ==
    pc = "scored" =>
        returned.n = Max(0, Min(20, C8_P(args.position, args.total_words)
                                      + SubjectFactor(Lower(args.entity), Lower(args.headline)).n
                                      + C22_Factor(args.entity, args.headline)
                                      + C8_M(args.entity, args.headline)))


\* the action verbs the headline holds as words
C23_VerbsFound(headline_words) ==
    { k \in 1..Len(action_verbs) :
        \E i \in 1..Len(headline_words) : headline_words[i] = action_verbs[k] }

\* the subject factor as stated, in twentieths: the first verb found is the
\* first of action_verbs that the headline holds; 0.4 when a word of the
\* entity stands at a smaller word index than that verb
C23_Factor(entity, headline) ==
    LET headline_words == Split(Lower(headline))
        entity_words == Split(Lower(entity))
        found == C23_VerbsFound(headline_words)
    IN  IF found = {} THEN 0
        ELSE LET verb == action_verbs[CHOOSE k \in found : \A j \in found : k <= j]
                 verb_pos == CHOOSE i \in 1..Len(headline_words) :
                                 /\ headline_words[i] = verb
                                 /\ \A j \in 1..(i - 1) : headline_words[j] # verb
             IN  IF \E w \in 1..Len(entity_words) : \E i \in 1..(verb_pos - 1) :
                        headline_words[i] = entity_words[w]
                 THEN 8 ELSE 0

\* C23: the subject factor looks at one verb only, the first one the search
\* over action_verbs finds in the headline: it adds 0.4 once when some word
\* of the entity stands at a smaller word index than that verb and 0
\* otherwise, however many verbs and entity words the headline holds; when
\* that verb does not qualify no other verb is consulted.
C23_SubjectFactorOnce ==
    pc = "scored" =>
        /\ SubjectFactor(Lower(args.entity), Lower(args.headline))
              \in {F0_0, F0_4}
        /\ returned.n = Max(0, Min(20, C8_P(args.position, args.total_words)
                                        + C23_Factor(args.entity, args.headline)
                                        + AttributionFactor(Lower(args.entity),
                                                            Lower(args.headline)).n
                                        + C8_M(args.entity, args.headline)))

\* two verbs, the entity after the first of the list and before the second:
\* nothing is added ("Reuters reports Google wins case", Google)
C23_Witness ==
    /\ pc = "scored"
    /\ Cardinality(C23_VerbsFound(Split(Lower(args.headline)))) = 2
    /\ C23_Factor(args.entity, args.headline) = 0
    /\ \E i \in 1..Len(Split(Lower(args.headline))) :
          /\ Split(Lower(args.headline))[i] = Lower(args.entity)
          /\ \E j \in (i + 1)..Len(Split(Lower(args.headline))) :
                \E k \in 1..Len(action_verbs) :
                    Split(Lower(args.headline))[j] = action_verbs[k]
    /\ args.position = 0
    /\ args.total_words = 5
    /\ returned.n = 8


(***************************************************************************)
(* Properties of the validator skip, of the merge of partial results, and   *)
(* of the records the extraction hands to the ranking.                      *)
(***************************************************************************)
\* one of the words of the entity is a corporate-suffix token
C24_HasSuffixWord(entity) ==
    \E w \in 1..Len(Split(Lower(entity))) : Split(Lower(entity))[w] \in company_suffixes

\* C24: the external validator is called only for candidates the rule
\* filter accepted; for such a candidate with no cached verdict the call is
\* skipped, and the candidate taken as valid, if and only if the entity has
\* more than two words and one of its words is a corporate-suffix token.
C24_SkipOnSuffixWord ==
    [][(pc = "candidate" /\ gemini_available)
        => /\ ~RuleAccepted => gemini_calls' = <<>>
           /\ (RuleAccepted
                 /\ ~InCache(gemini_cache, CacheKey(args.entity, args.headline)))
                => /\ (gemini_calls' = <<>>)
                        <=> (Len(Split(args.entity)) > 2 /\ C24_HasSuffixWord(args.entity))
                   /\ (gemini_calls' = <<>>) => entity_data' = TakenAsValid]_vars


\* the record of e among the records data, the default one when there is none
C25_RecordIn(data, e) ==
    IF HasKey(data, e)
    THEN data[CHOOSE i \in 1..Len(data) : data[i].name = e]
    ELSE DefaultRecord(e)

\* the number of times x stands in the sequence s
C25_Times(s, x) == Cardinality({ i \in 1..Len(s) : s[i] = x })

\* the record of e in the result of part p
C25_Part(p, e) == C25_RecordIn(returned[p].data, e)

\* the additive merge of the results of the parts for e
C25_Merged(e) ==
    LET a == C25_Part("a", e)
        b == C25_Part("b", e)
    IN  [mentions |-> a.mentions + b.mentions,
         article_count |-> a.article_count + b.article_count,
         involvement_scores |-> a.involvement_scores \o b.involvement_scores,
         headlines |-> a.headlines \o b.headlines,
         sources |-> a.sources \cup b.sources]

\* the keys of the results of the parts
C25_PartKeys ==
    UNION { { returned[p].data[i].name : i \in 1..Len(returned[p].data) } : p \in Parts }

\* C25: with no external capability, for every split of the article list
\* into parts run independently and in any interleaving, the merge of the
\* results of the parts (mentions and article counts summed, scores and
\* headlines concatenated, sources united) has the keys of the run over the
\* whole list and, for every key, the same mentions, article_count and
\* sources and the same scores and headlines as multisets.
C25_SplitMergesToWhole ==
    (pc = "rank" /\ \A p \in Parts : returned[p].done) =>
        /\ C25_PartKeys = { entity_data[i].name : i \in 1..Len(entity_data) }
        /\ \A i \in 1..Len(entity_data) :
              LET whole == entity_data[i]
                  merged == C25_Merged(entity_data[i].name)
              IN  /\ merged.mentions = whole.mentions
                  /\ merged.article_count = whole.article_count
                  /\ merged.sources = whole.sources
                  /\ Len(merged.involvement_scores) = Len(whole.involvement_scores)
                  /\ \A k \in 1..Len(whole.involvement_scores) :
                        C25_Times(merged.involvement_scores, whole.involvement_scores[k])
                          = C25_Times(whole.involvement_scores, whole.involvement_scores[k])
                  /\ Len(merged.headlines) = Len(whole.headlines)
                  /\ \A k \in 1..Len(whole.headlines) :
                        C25_Times(merged.headlines, whole.headlines[k])
                          = C25_Times(whole.headlines, whole.headlines[k])

\* three articles in two parts, the middle article of the list alone in the
\* part merged first: one entity has records in both parts and its merged
\* headlines stand in another order than in the run over the whole list
C25_Witness ==
    /\ pc = "rank"
    /\ \A p \in Parts : returned[p].done
    /\ Len(articles) = 3
    /\ args.owner[2] = "a" /\ args.owner[1] = "b" /\ args.owner[3] = "b"
    /\ \E i \in 1..Len(entity_data) :
          /\ \A p \in Parts : C25_Part(p, entity_data[i].name).mentions >= 1
          /\ C25_Merged(entity_data[i].name).headlines # entity_data[i].headlines
          /\ Cardinality(entity_data[i].sources) = 2

(***************************************************************************)
(* Properties of the semaphore of enhance_articles_async.                   *)
(***************************************************************************)
\* C26: whatever the number of targets and the order in which the scrapes
\* return, never more than 20 calls of scrape_article_content_async are
\* running, no target is scraped twice, the call of enhance_articles_async
\* returns, and when it does every target was scraped exactly once.
C26_Bounded ==
    pc \in {"gather", "gathered"} =>
        /\ InFlight <= 20
        /\ returned.scrapes <= 1
        /\ returned.task = "scraping" => InFlight >= 1

C26_Once ==
    pc = "gathered" =>
        /\ returned.started = args.total
        /\ args.total > 0 => returned.scrapes = 1 /\ returned.task = "returned"

C26_SemaphoreBoundsScrapes ==
    [](C26_Bounded /\ C26_Once) /\ <>(pc = "gathered")

\* more targets than permits: all permits are out and the coroutine of the
\* watched target waits for one
C26_Witness ==
    /\ pc = "gather"
    /\ args.total > 20
    /\ InFlight = 20
    /\ returned.semaphore = 0
    /\ returned.task = "created"

(***************************************************************************)
(* Properties of the records extract_entities_ner returns, as the ranking   *)
(* reads them.                                                              *)
(***************************************************************************)
\* the texts a tagger may give as candidates of the articles
C27_Candidates ==
    UNION { { t.entities[k][1] : k \in 1..Len(t.entities) }
            : t \in UNION { Taggings(GetTitle(articles[i])) : i \in 1..Len(articles) } }

\* those of them that one of the reject rules fires on
C27_RejectedCandidates ==
    { e \in C27_Candidates : Len(e) > 0 /\ FirstRejectRule(e) # 0 }

\* C27: a text one of the reject rules of _is_valid_company_name fires on is
\* never a key of entity_data nor a name of the ranking, whichever tagger
\* made the candidates and in whichever order the articles come; and every
\* key of entity_data has mentions >= 1.
C27_KeysPassedTheFilter ==
    /\ \A i \in 1..Len(entity_data) :
           /\ Len(entity_data[i].name) > 0
           /\ FirstRejectRule(entity_data[i].name) = 0
           /\ entity_data[i].mentions >= 1
    /\ \A i \in 1..Len(ranked) :
           Len(ranked[i].name) > 0 /\ FirstRejectRule(ranked[i].name) = 0
    /\ \A i \in 1..Len(result) :
           Len(result[i].name) > 0 /\ FirstRejectRule(result[i].name) = 0

\* the call returned a ranking, and a tagger could give a rejected candidate
C27_Witness ==
    /\ pc = "done"
    /\ Len(result) >= 1
    /\ Len(entity_data) >= 1
    /\ C27_RejectedCandidates # {}

\* C28: every entry of the ranking made from the records of
\* extract_entities_ner, with total_articles = len(articles), has
\* article_count <= total_articles, so that coverage_pct lies between 0 and
\* 100 (coverage_pct is held in hundredths of a percent).
C28_CoverageIsFraction ==
    pc \in {"slice", "done"} =>
        \A i \in 1..Len(ranked) :
            /\ ranked[i].articles <= Len(articles)
            /\ ranked[i].coverage_pct >= 0
            /\ ranked[i].coverage_pct <= 10000

\* C29: in the records extract_entities_ner returns mentions = article_count
\* for every entity, so the consistency term of rank_by_dominance,
\* ConsistencyNum(d) / (3 * max(article_count, 1)), is 10/3 for every ranked
\* entity, and no dominance_score (held in hundredths) exceeds
\* 30 + 40 + 20 + 3.34 = 93.34.
C29_ConsistencyIsConstant ==
    pc \in {"rank", "slice", "done"} =>
        /\ \A i \in 1..Len(entity_data) :
               entity_data[i].mentions = entity_data[i].article_count
        /\ pc # "rank" =>
               \A i \in 1..Len(ranked) :
                   LET d == RecordOf(ranked[i].name)
                   IN  /\ 3 * ConsistencyNum(d) = 10 * (3 * Max(d.article_count, 1))
                       /\ ranked[i].dominance_score <= 9334

\* two entities are ranked, one counted more often than the other
C29_Witness ==
    /\ pc = "done"
    /\ Len(ranked) >= 2
    /\ ranked[1].mentions # ranked[2].mentions
    /\ ranked[1].articles >= 2

\* the entities that passed the mention floor and are not in the ranking:
\* those the coverage floor rejected
C30_RejectedByCoverage ==
    { i \in 1..Len(entity_data) :
        /\ PassesMentionFloor(entity_data[i], total_articles)
        /\ \A k \in 1..Len(ranked) : ranked[k].name # entity_data[i].name }

\* C30: rank_by_dominance rejects an entity with article_count >= 1 by the
\* coverage floor only if total_articles > 200 * article_count; so a record
\* with mentions = article_count, as extract_entities_ner makes them, that
\* passed the mention floor is not rejected by the coverage floor when
\* total_articles <= 400, and no entity with article_count >= 1 is when
\* total_articles < 100.
C30_CoverageFloorReach ==
    pc = "slice" =>
        \A i \in C30_RejectedByCoverage :
            LET d == entity_data[i]
            IN  /\ d.article_count >= 1 => total_articles > 200 * d.article_count
                /\ d.mentions = d.article_count => total_articles > 400
                /\ d.article_count >= 1 => total_articles >= 100

\* at 401 articles an entity counted twice in two articles passed the mention
\* floor and is rejected by the coverage floor
C30_Witness ==
    /\ pc = "slice"
    /\ total_articles = 401
    /\ \E i \in C30_RejectedByCoverage :
           entity_data[i].mentions = 2 /\ entity_data[i].article_count = 2

=============================================================================
